---- MODULE Spec2Model ----
(***************************************************************************)
(* Model of the event-dispatch / continuation core of nrf-softdevice:      *)
(*   ble/central.rs  connect, scan, on_adv_report                          *)
(*   ble/l2cap.rs    init, setup, listen_with, try_tx, tx, rx, on_evt      *)
(* The Portal, the OnDrop guard, the connection-state table and the GAP    *)
(* event dispatch live outside these two files; they are modelled from the *)
(* written specification (sections 3, 4.2, 4.3 and 5).                     *)
(*                                                                         *)
(* A task is a Rust future.  Its position is one of                        *)
(*   idle      not called                                                  *)
(*   wait      suspended on a portal, nothing delivered yet                *)
(*   woken     the portal ran the predicate in the dispatch context and    *)
(*             stored the result; the task has not been polled again       *)
(*   done      returned to its caller                                      *)
(*   abandoned the future was dropped at a suspension point                *)
(* A panic (panic!, unwrap!, unreachable!) aborts the firmware: no action  *)
(* is enabled afterwards.                                                  *)
(***************************************************************************)
EXTENDS Integers, Sequences, FiniteSets, TLC

\* ------------------------------------------------------------------------
\* Bounds and program constants
\* ------------------------------------------------------------------------

\* Number of entries of the per-connection arrays (PORTALS, state table).
CONNS_MAX == 2

\* Advertisement reports the radio delivers during one scan.
MaxAdvReports == 2

\* credit_hack_refill: the credit count it raises a channel to.
CREDITS_MAX == 65535

\* Attempts of one tx call that the radio answers with "queue full".
MaxTxAttempts == 2

\* Setup requests one listen_with call turns down.
MaxRejects == 2

\* Packet::MTU of the application's Packet implementation.
MTU == 2

\* raw::BLE_L2CAP_CID_INVALID
BLE_L2CAP_CID_INVALID == 0

Handles == 0 .. (CONNS_MAX - 1)

\* The link the channel driver is exercised on.
L2capConn == CHOOSE h \in Handles : TRUE

\* Application tasks that use the channel driver, and "no task".
Tasks == {1, 2}
NoTask == 0

\* Local channel ids the radio hands out.
Cids == {64, 65}

\* Protocol/service multiplexer ids (0x25, 0x30).
PSMs == {37, 48}

\* Values of l2cap::Config::credits.
CreditCounts == {1, 2}

\* Pointers of the packet buffers, and the null pointer.
Ptrs == {1, 2}
NullPtr == 0

\* Lengths of the packets the application transmits (MTU + 1 breaks the
\* Packet contract) and of the SDUs the radio receives.
TxLens == {1, MTU + 1}
RxLens == {1, MTU}

NoHandle == 0 - 1

\* raw::BLE_GAP_PHY_AUTO, and the PHY preference bitmasks a caller configures
\* (BLE_GAP_PHY_1MBPS, BLE_GAP_PHY_2MBPS).
BLE_GAP_PHY_AUTO == 0
PhyPrefs == {1, 2}

\* Lengths of the whitelist slice handed to connect.
WhitelistLens == {0, 1, 2}

\* ------------------------------------------------------------------------
\* State
\* ------------------------------------------------------------------------

VARIABLES
    \* connection-state table, indexed by handle
    connected,       \* [Handles -> BOOLEAN]   ConnectionState connected flag
    tx_phys,         \* [Handles -> phy]       ConnectionState.tx_phys
    rx_phys,         \* [Handles -> phy]       ConnectionState.rx_phys
    \* history of the GAP events processed for each handle
    everConnected,   \* [Handles -> BOOLEAN]   a connect-success event was processed
    discSince,       \* [Handles -> BOOLEAN]   a disconnect was processed since then
    \* build configuration
    gattClient,      \* BOOLEAN   feature "ble-gatt-client"
    creditWorkaround, \* BOOLEAN  feature "ble-l2cap-credit-wrokaround"
    \* radio controller, GAP side
    hwConnecting,    \* BOOLEAN   a connect command is in progress
    hwScan,          \* "off" | "scanning" | "paused"
    \* the connect task
    CONNECT_PORTAL,  \* "None" | "Waiting"
    cpc,             \* position of the connect future
    config,          \* central::Config of the call: [tx_phys, rx_phys]
    d,               \* the OnDrop guard of connect: "none"|"armed"|"defused"|"fired"
    connRes,         \* value the portal stored for the task
    connRet,         \* value connect returned to its caller
    droppedAt,       \* suspension point at which the connect future was dropped
    mtuResult,       \* outcome of att_mtu_exchange in this call: "none"|"ok"|"failed"
    cancelCmds,      \* sd_ble_gap_connect_cancel commands issued by this call
    connectCmds,     \* sd_ble_gap_connect commands issued by this call
    \* the scan task
    SCAN_PORTAL,     \* "None" | "Waiting"
    spc,             \* position of the scan future
    scanD,           \* the OnDrop guard of scan
    scanRes,         \* value the portal stored for the task
    scanRet,         \* value scan returned to its caller
    stopCmds,        \* sd_ble_gap_scan_stop commands issued by this call
    startCmds,       \* sd_ble_gap_scan_start commands issued by this call
    fCalls,          \* invocations of the caller's callback f in this call
    advReports,      \* advertisement reports delivered during this call
    \* the channel driver
    IS_INIT,         \* BOOLEAN
    PACKET_FREE,     \* BOOLEAN: the static holds Some(free routine)
    PORTALS,         \* [Handles -> Tasks \cup {NoTask}]: the registered waiter
    task,            \* [Tasks -> record]: the futures of the application tasks
    channels,        \* cids of the Channel values handed to the application
    aborted,         \* the panic that aborted the firmware, if any
    \* packet buffers: [Ptrs -> [owner, cid]], owner one of "free", "app",
    \* "task", "hw_tx", "hw_rx", "leaked"; cid the channel a buffer was
    \* handed to the radio on
    buf,
    \* radio controller, channel side
    hwCh             \* [Cids -> "closed"|"req"|"pending"|"open"]

tableVars == <<connected, tx_phys, rx_phys, everConnected, discSince>>

connectVars == <<gattClient, creditWorkaround, hwConnecting, CONNECT_PORTAL, cpc, config, d,
                 connRes, connRet, droppedAt, mtuResult, cancelCmds, connectCmds>>

scanVars == <<hwScan, SCAN_PORTAL, spc, scanD, scanRes, scanRet, stopCmds,
              startCmds, fCalls, advReports>>

centralVars == <<connectVars, scanVars>>

l2capVars == <<IS_INIT, PACKET_FREE, PORTALS, task, channels, aborted, buf, hwCh>>

\* ------------------------------------------------------------------------
\* Results
\* ------------------------------------------------------------------------

NoRes == [kind |-> "none", h |-> NoHandle]

Ok(h) == [kind |-> "Ok", h |-> h]

Err(e) == [kind |-> e, h |-> NoHandle]

\* ------------------------------------------------------------------------
\* OnDrop guard (util::OnDrop): dropping an armed guard runs its closure
\* once; a defused guard runs nothing.
\* ------------------------------------------------------------------------

\* Number of times the closure runs when a guard in state g is dropped.
OnDropRuns(g) == IF g = "armed" THEN 1 ELSE 0

\* State of a guard after it was dropped.
OnDropDropped(g) == IF g = "armed" THEN "fired" ELSE g

\* ------------------------------------------------------------------------
\* Connection-state table
\* ------------------------------------------------------------------------

\* ConnectionState::check_connected
check_connected(h) == IF connected[h] THEN Ok(h) ELSE Err("Disconnected")

\* The table entry of h when a connect-success event for h is processed.
StateOnConnected(h) ==
    /\ connected' = [connected EXCEPT ![h] = TRUE]
    /\ everConnected' = [everConnected EXCEPT ![h] = TRUE]
    /\ discSince' = [discSince EXCEPT ![h] = FALSE]

\* Mutant: the disconnect leaves the connected flag set.
StateOnDisconnected_KeepsFlag(h) ==
    /\ tx_phys' = [tx_phys EXCEPT ![h] = BLE_GAP_PHY_AUTO]
    /\ rx_phys' = [rx_phys EXCEPT ![h] = BLE_GAP_PHY_AUTO]
    /\ discSince' = [discSince EXCEPT ![h] = TRUE]
    /\ UNCHANGED <<connected, everConnected>>

\* The table entry of h when a disconnect event for h is processed: the
\* record is reset.
StateOnDisconnected(h) ==
    /\ connected' = [connected EXCEPT ![h] = FALSE]
    /\ tx_phys' = [tx_phys EXCEPT ![h] = BLE_GAP_PHY_AUTO]
    /\ rx_phys' = [rx_phys EXCEPT ![h] = BLE_GAP_PHY_AUTO]
    /\ discSince' = [discSince EXCEPT ![h] = TRUE]
    /\ UNCHANGED everConnected

\* ------------------------------------------------------------------------
\* central::connect
\* ------------------------------------------------------------------------

\* connect returns ret while its guard is in state g: the guard is dropped
\* with the other locals, and runs sd_ble_gap_connect_cancel if still armed.
ConnectReturns(ret, g) ==
    /\ cpc' = "done"
    /\ connRet' = ret
    /\ d' = OnDropDropped(g)
    /\ cancelCmds' = cancelCmds + OnDropRuns(g)
    /\ hwConnecting' = IF OnDropRuns(g) > 0 THEN FALSE ELSE hwConnecting

\* Mutant: a rejected connect command is not noticed, connect waits.
connect_WaitsOnRejection(n, cfg, accepted) ==
    /\ cpc = "idle"
    /\ config' = cfg
    /\ \/ /\ n # 1                       \* "zero-length whitelist" / "todo"
          /\ cpc' = "panic"
          /\ UNCHANGED <<d, connectCmds, cancelCmds, hwConnecting,
                         CONNECT_PORTAL, connRet>>
       \/ /\ n = 1
          /\ ~accepted
          /\ connectCmds' = connectCmds + 1
          /\ d' = "armed"
          /\ CONNECT_PORTAL' = "Waiting"
          /\ cpc' = "wait"
          /\ UNCHANGED <<cancelCmds, connRet, hwConnecting>>
       \/ /\ n = 1
          /\ accepted                    \* CONNECT_PORTAL.wait_once(..).await
          /\ connectCmds' = connectCmds + 1
          /\ hwConnecting' = TRUE
          /\ d' = "armed"
          /\ CONNECT_PORTAL' = "Waiting"
          /\ cpc' = "wait"
          /\ UNCHANGED <<cancelCmds, connRet>>
    /\ UNCHANGED <<gattClient, creditWorkaround, connRes, droppedAt, mtuResult>>
    /\ UNCHANGED <<tableVars, scanVars>>

\* The call, up to its first suspension point.  n is whitelist.len(), cfg
\* the configuration, accepted the status of sd_ble_gap_connect.
connect(n, cfg, accepted) ==
    /\ cpc = "idle"
    /\ config' = cfg
    /\ \/ /\ n # 1                       \* "zero-length whitelist" / "todo"
          /\ cpc' = "panic"
          /\ UNCHANGED <<d, connectCmds, cancelCmds, hwConnecting,
                         CONNECT_PORTAL, connRet>>
       \/ /\ n = 1
          /\ ~accepted                   \* return Err(err.into())
          /\ connectCmds' = connectCmds + 1
          /\ ConnectReturns(Err("Raw"), "armed")
          /\ UNCHANGED CONNECT_PORTAL
       \/ /\ n = 1
          /\ accepted                    \* CONNECT_PORTAL.wait_once(..).await
          /\ connectCmds' = connectCmds + 1
          /\ hwConnecting' = TRUE
          /\ d' = "armed"
          /\ CONNECT_PORTAL' = "Waiting"
          /\ cpc' = "wait"
          /\ UNCHANGED <<cancelCmds, connRet>>
    /\ UNCHANGED <<gattClient, creditWorkaround, connRes, droppedAt, mtuResult>>
    /\ UNCHANGED <<tableVars, scanVars>>

\* CONNECT_PORTAL.call(res) from the GAP event handler: the predicate of
\* connect is the identity |res| res; with no waiter the value is dropped.
ConnectPortalCall(res) ==
    IF CONNECT_PORTAL = "Waiting"
    THEN /\ connRes' = res
         /\ CONNECT_PORTAL' = "None"
         /\ cpc' = "woken"
    ELSE UNCHANGED <<connRes, CONNECT_PORTAL, cpc>>

\* BLE_GAP_EVT_CONNECTED for handle h, central role.
GapConnected(h) ==
    /\ cpc # "panic"
    /\ hwConnecting
    /\ ~connected[h]
    /\ hwConnecting' = FALSE
    /\ StateOnConnected(h)
    /\ ConnectPortalCall(Ok(h))
    /\ UNCHANGED <<tx_phys, rx_phys>>
    /\ UNCHANGED <<gattClient, creditWorkaround, config, d, connRet, droppedAt, mtuResult, cancelCmds,
                   connectCmds>>
    /\ UNCHANGED scanVars

\* BLE_GAP_EVT_TIMEOUT with source "connection".
GapConnectTimeout ==
    /\ cpc # "panic"
    /\ hwConnecting
    /\ hwConnecting' = FALSE
    /\ ConnectPortalCall(Err("Timeout"))
    /\ UNCHANGED <<gattClient, creditWorkaround, config, d, connRet, droppedAt, mtuResult, cancelCmds,
                   connectCmds>>
    /\ UNCHANGED <<tableVars, scanVars>>

\* The PHY fields connect writes into the state of the new connection.
ConnectPhys(cfg) == [rx_phys |-> cfg.tx_phys, tx_phys |-> cfg.rx_phys]

\* Mutant: connect never defuses its guard.
GuardAfterPortal_NeverDefused(res, g) == g

\* State of the guard once connect has run past the portal with result res.
GuardAfterPortal(res, g) == IF res.kind = "Ok" THEN "defused" ELSE g

\* The task is polled after the portal resolved: from the wait_once up to
\* the next suspension point or the return.
ConnectResume ==
    /\ cpc = "woken"
    /\ \/ /\ connRes.kind # "Ok"         \* the ? operator
          /\ ConnectReturns(connRes, d)
          /\ UNCHANGED <<tx_phys, rx_phys>>
       \/ /\ connRes.kind = "Ok"
          /\ rx_phys' = [rx_phys EXCEPT ![connRes.h] = ConnectPhys(config).rx_phys]
          /\ tx_phys' = [tx_phys EXCEPT ![connRes.h] = ConnectPhys(config).tx_phys]
          /\ IF gattClient
             THEN /\ cpc' = "mtu"        \* att_mtu_exchange(..).await
                  /\ d' = GuardAfterPortal(connRes, d)
                  /\ UNCHANGED <<connRet, cancelCmds, hwConnecting>>
             ELSE ConnectReturns(connRes, GuardAfterPortal(connRes, d))
    /\ UNCHANGED <<connected, everConnected, discSince>>
    /\ UNCHANGED <<gattClient, creditWorkaround, CONNECT_PORTAL, config, connRes, droppedAt, mtuResult,
                   connectCmds>>
    /\ UNCHANGED scanVars

\* What connect does with the result of att_mtu_exchange: unwrap!.
MtuExchangeOutcome(ok) == IF ok THEN "return" ELSE "panic"

\* att_mtu_exchange resolves, successfully or not.
MtuExchangeDone(ok) ==
    /\ cpc = "mtu"
    /\ mtuResult' = IF ok THEN "ok" ELSE "failed"
    /\ IF MtuExchangeOutcome(ok) = "return"
       THEN ConnectReturns(connRes, d)
       ELSE /\ cpc' = "panic"
            /\ UNCHANGED <<connRet, d, cancelCmds, hwConnecting>>
    /\ UNCHANGED <<gattClient, creditWorkaround, CONNECT_PORTAL, config, connRes, droppedAt, connectCmds>>
    /\ UNCHANGED <<tableVars, scanVars>>

\* The connect future is dropped at a suspension point: its locals are
\* dropped, the guard among them, and the portal forgets the waiter.
ConnectAbandon ==
    /\ cpc \in {"wait", "woken", "mtu"}
    /\ droppedAt' = cpc
    /\ cpc' = "abandoned"
    /\ d' = OnDropDropped(d)
    /\ cancelCmds' = cancelCmds + OnDropRuns(d)
    /\ hwConnecting' = IF OnDropRuns(d) > 0 THEN FALSE ELSE hwConnecting
    /\ CONNECT_PORTAL' = "None"
    /\ UNCHANGED <<gattClient, creditWorkaround, config, connRes, connRet, mtuResult, connectCmds>>
    /\ UNCHANGED <<tableVars, scanVars>>

\* The caller is done with the call; a later call starts afresh.
ConnectForget ==
    /\ cpc \in {"done", "abandoned"}
    /\ cpc' = "idle"
    /\ d' = "none"
    /\ connRes' = NoRes
    /\ connRet' = NoRes
    /\ droppedAt' = "none"
    /\ mtuResult' = "none"
    /\ cancelCmds' = 0
    /\ connectCmds' = 0
    /\ UNCHANGED <<gattClient, creditWorkaround, hwConnecting, CONNECT_PORTAL, config>>
    /\ UNCHANGED <<tableVars, scanVars>>

\* ------------------------------------------------------------------------
\* central::scan
\* ------------------------------------------------------------------------

\* scan returns ret while its guard is in state g: the guard is dropped with
\* the other locals and runs sd_ble_gap_scan_stop if still armed.
ScanReturns(ret, g) ==
    /\ spc' = "done"
    /\ scanRet' = ret
    /\ scanD' = OnDropDropped(g)
    /\ stopCmds' = stopCmds + OnDropRuns(g)
    /\ hwScan' = IF OnDropRuns(g) > 0 THEN "off" ELSE hwScan

\* The call, up to its first suspension point.  accepted is the status of
\* sd_ble_gap_scan_start.
scan(accepted) ==
    /\ spc = "idle"
    /\ startCmds' = startCmds + 1
    /\ \/ /\ ~accepted                   \* return Err(ScanError::Raw(err))
          /\ ScanReturns(Err("Raw"), "none")
          /\ UNCHANGED SCAN_PORTAL
       \/ /\ accepted                    \* SCAN_PORTAL.wait_many(..).await
          /\ hwScan' = "scanning"
          /\ scanD' = "armed"
          /\ SCAN_PORTAL' = "Waiting"
          /\ spc' = "wait"
          /\ UNCHANGED <<scanRet, stopCmds>>
    /\ UNCHANGED <<scanRes, fCalls, advReports>>
    /\ UNCHANGED <<tableVars, connectVars>>

\* Mutant: the predicate ignores the status of the command that resumes the
\* scan.
ScanPredicateAdv_IgnoresRestartError(final, resumed) ==
    IF final THEN Ok(NoHandle) ELSE NoRes

\* The wait_many predicate of scan on an advertisement report.  final tells
\* whether the callback f returns Some(r); resumed is the status of the
\* sd_ble_gap_scan_start that resumes the scan.  The value is the predicate's
\* Option: NoRes stands for None.
ScanPredicateAdv(final, resumed) ==
    IF final THEN Ok(NoHandle)
    ELSE IF resumed THEN NoRes
    ELSE Err("Raw")

\* on_adv_report: SCAN_PORTAL.call(ScanPortalMessage::AdvReport(ble_evt)).
\* The radio pauses the scan with each report until it is resumed.
on_adv_report(final, resumed) ==
    /\ cpc # "panic"
    /\ hwScan = "scanning"
    /\ advReports < MaxAdvReports
    /\ advReports' = advReports + 1
    /\ IF SCAN_PORTAL = "Waiting"
       THEN /\ fCalls' = fCalls + 1
            /\ startCmds' = IF final THEN startCmds ELSE startCmds + 1
            /\ hwScan' = IF ~final /\ resumed THEN "scanning" ELSE "paused"
            /\ IF ScanPredicateAdv(final, resumed) = NoRes
               THEN UNCHANGED <<scanRes, SCAN_PORTAL, spc>>
               ELSE /\ scanRes' = ScanPredicateAdv(final, resumed)
                    /\ SCAN_PORTAL' = "None"
                    /\ spc' = "woken"
       ELSE /\ hwScan' = "paused"
            /\ UNCHANGED <<fCalls, startCmds, scanRes, SCAN_PORTAL, spc>>
    /\ UNCHANGED <<scanD, scanRet, stopCmds>>
    /\ UNCHANGED <<tableVars, connectVars>>

\* BLE_GAP_EVT_TIMEOUT with source "scan":
\* SCAN_PORTAL.call(ScanPortalMessage::Timeout(ble_evt)).
GapScanTimeout ==
    /\ cpc # "panic"
    /\ hwScan # "off"
    /\ hwScan' = "off"
    /\ IF SCAN_PORTAL = "Waiting"
       THEN /\ scanRes' = Err("Timeout")
            /\ SCAN_PORTAL' = "None"
            /\ spc' = "woken"
       ELSE UNCHANGED <<scanRes, SCAN_PORTAL, spc>>
    /\ UNCHANGED <<scanD, scanRet, stopCmds, startCmds, fCalls, advReports>>
    /\ UNCHANGED <<tableVars, connectVars>>

\* Mutant: scan defuses its guard before it returns a result.
ScanResume_Defused ==
    /\ cpc # "panic"
    /\ spc = "woken"
    /\ ScanReturns(scanRes, IF scanRes.kind = "Ok" THEN "defused" ELSE scanD)
    /\ UNCHANGED <<SCAN_PORTAL, scanRes, startCmds, fCalls, advReports>>
    /\ UNCHANGED <<tableVars, connectVars>>

\* The task is polled after the portal resolved: `.await?` and `Ok(res)`.
ScanResume ==
    /\ cpc # "panic"
    /\ spc = "woken"
    /\ ScanReturns(scanRes, scanD)
    /\ UNCHANGED <<SCAN_PORTAL, scanRes, startCmds, fCalls, advReports>>
    /\ UNCHANGED <<tableVars, connectVars>>

\* The scan future is dropped at its suspension point.
ScanAbandon ==
    /\ cpc # "panic"
    /\ spc \in {"wait", "woken"}
    /\ spc' = "abandoned"
    /\ scanD' = OnDropDropped(scanD)
    /\ stopCmds' = stopCmds + OnDropRuns(scanD)
    /\ hwScan' = IF OnDropRuns(scanD) > 0 THEN "off" ELSE hwScan
    /\ SCAN_PORTAL' = "None"
    /\ UNCHANGED <<scanRes, scanRet, startCmds, fCalls, advReports>>
    /\ UNCHANGED <<tableVars, connectVars>>

\* The caller is done with the call; a later call starts afresh.
ScanForget ==
    /\ cpc # "panic"
    /\ spc \in {"done", "abandoned"}
    /\ spc' = "idle"
    /\ scanD' = "none"
    /\ scanRes' = NoRes
    /\ scanRet' = NoRes
    /\ stopCmds' = 0
    /\ startCmds' = 0
    /\ fCalls' = 0
    /\ advReports' = 0
    /\ UNCHANGED <<hwScan, SCAN_PORTAL>>
    /\ UNCHANGED <<tableVars, connectVars>>

\* ------------------------------------------------------------------------
\* GAP disconnect
\* ------------------------------------------------------------------------

\* BLE_GAP_EVT_DISCONNECTED for handle h.
GapDisconnected(h) ==
    /\ cpc # "panic"
    /\ connected[h]
    /\ StateOnDisconnected(h)
    /\ UNCHANGED centralVars

\* ------------------------------------------------------------------------
\* Specification of the central role
\* ------------------------------------------------------------------------

Configs == [tx_phys : PhyPrefs, rx_phys : PhyPrefs]

InitTable ==
    /\ connected = [h \in Handles |-> FALSE]
    /\ tx_phys = [h \in Handles |-> BLE_GAP_PHY_AUTO]
    /\ rx_phys = [h \in Handles |-> BLE_GAP_PHY_AUTO]
    /\ everConnected = [h \in Handles |-> FALSE]
    /\ discSince = [h \in Handles |-> FALSE]

InitCentral ==
    /\ hwConnecting = FALSE
    /\ hwScan = "off"
    /\ CONNECT_PORTAL = "None"
    /\ cpc = "idle"
    /\ config = [tx_phys |-> BLE_GAP_PHY_AUTO, rx_phys |-> BLE_GAP_PHY_AUTO]
    /\ d = "none"
    /\ connRes = NoRes
    /\ connRet = NoRes
    /\ droppedAt = "none"
    /\ mtuResult = "none"
    /\ cancelCmds = 0
    /\ connectCmds = 0
    /\ SCAN_PORTAL = "None"
    /\ spc = "idle"
    /\ scanD = "none"
    /\ scanRes = NoRes
    /\ scanRet = NoRes
    /\ stopCmds = 0
    /\ startCmds = 0
    /\ fCalls = 0
    /\ advReports = 0


\* ------------------------------------------------------------------------
\* Packets, results and commands of the channel driver
\* ------------------------------------------------------------------------

\* A Packet value: the buffer it owns and the number of bytes in it.
Pkt(ptr, len) == [ptr |-> ptr, len |-> len]

NoPkt == Pkt(NullPtr, 0)

\* Packet::into_raw_parts: the pointer and the length of the packet.
into_raw_parts(sdu) == <<sdu.ptr, sdu.len>>

\* Packet::from_raw_parts: the packet that owns ptr and holds len bytes.
from_raw_parts(ptr, len) == Pkt(ptr, len)

\* A result of setup, listen_with, try_tx, tx or rx.
LRes(kind, cid, pkt) == [kind |-> kind, cid |-> cid, pkt |-> pkt]

NoLRes == LRes("none", BLE_L2CAP_CID_INVALID, NoPkt)

Failure(kind) == LRes(kind, BLE_L2CAP_CID_INVALID, NoPkt)

\* A command issued to the radio: sd_ble_l2cap_<c>(conn, cid, ..) with its
\* buffer (if any), its numeric argument (PSM or credits) and its status.
Cmd(c, cid, pkt, n, status) ==
    [c |-> c, cid |-> cid, pkt |-> pkt, n |-> n, status |-> status]

\* The future r completes with ret: what it captured is gone, the caller
\* has the result.
Returns(r, ret) ==
    [pc |-> "done", op |-> r.op, cid |-> r.cid, credits |-> 1, accept |-> {},
     sdu |-> r.sdu, res |-> LRes("none", BLE_L2CAP_CID_INVALID, Pkt(NullPtr, 0)),
     ret |-> ret, cmds |-> r.cmds]

\* A future that was not called.
IdleTask ==
    [pc |-> "idle", op |-> "none", cid |-> BLE_L2CAP_CID_INVALID,
     credits |-> 1, accept |-> {}, sdu |-> NoPkt, res |-> NoLRes,
     ret |-> NoLRes, cmds |-> <<>>]

\* An event record: header.evt_id, local_cid, sdu_buf.p_data, its length and
\* le_psm.
Evt(id, cid, ptr, len, psm) ==
    [id |-> id, cid |-> cid, ptr |-> ptr, len |-> len, psm |-> psm]

\* Mutant: the operation goes on without checking the connection.
conn_handle_Unchecked == Ok(L2capConn)

\* conn.with_state(|state| state.check_connected()), the first statement of
\* setup, listen_with, try_tx, tx and rx; `?` returns its error.
conn_handle == check_connected(L2capConn)

\* A buffer in the allocator, and a buffer owned by o on channel cid.
FreeBuf == [owner |-> "free", cid |-> BLE_L2CAP_CID_INVALID]

Owned(o, cid) == [owner |-> o, cid |-> cid]

\* The buffer the allocator hands out next (NullPtr when it has none).
NextFree ==
    IF \E b \in Ptrs : buf[b].owner = "free"
    THEN CHOOSE b \in Ptrs : buf[b].owner = "free"
                             /\ \A b2 \in Ptrs : buf[b2].owner = "free" => b <= b2
    ELSE NullPtr

\* The channel id the radio hands out next.
NextCid ==
    IF \E c \in Cids : hwCh[c] = "closed"
    THEN CHOOSE c \in Cids : hwCh[c] = "closed"
                             /\ \A c2 \in Cids : hwCh[c2] = "closed" => c <= c2
    ELSE BLE_L2CAP_CID_INVALID

\* ------------------------------------------------------------------------
\* Panics
\* ------------------------------------------------------------------------

NotAborted == [why |-> "no", op |-> "none", evt |-> "none"]

\* A panic aborts the firmware: what remains is the record of the panic
\* (its message, the operation that raised it and the event it was handed).
Halt(why, op, evt) ==
    /\ aborted' = [why |-> why, op |-> op, evt |-> evt]
    /\ IS_INIT' = FALSE
    /\ PACKET_FREE' = FALSE
    /\ PORTALS' = [h \in Handles |-> NoTask]
    /\ task' = [t \in Tasks |-> IdleTask]
    /\ channels' = {}
    /\ buf' = [b \in Ptrs |-> FreeBuf]
    /\ hwCh' = [c \in Cids |-> "closed"]

\* ------------------------------------------------------------------------
\* Portal of a connection: registration and delivery
\* ------------------------------------------------------------------------

\* Mutant: the portal does not notice the waiter it holds.
Occupied_Never == FALSE

\* A waiter is registered on the portal of the link.
Occupied == PORTALS[L2capConn] # NoTask

\* wait_once / wait_many on a free portal: the future r of task t registers
\* and suspends.  (Registering on an occupied portal panics.)
Suspend(t, r) ==
    /\ PORTALS' = [PORTALS EXCEPT ![L2capConn] = t]
    /\ task' = [task EXCEPT ![t] = r]

\* What a predicate makes of an event: the portal keeps waiting, resolves
\* the wait with res, or the predicate panics.  cmds are the commands the
\* predicate issued.
Keeps(cmds) == [act |-> "keep", res |-> NoLRes, cmds |-> cmds]

Resolves(res, cmds) == [act |-> "resolve", res |-> res, cmds |-> cmds]

Panics == [act |-> "panic", res |-> NoLRes, cmds |-> <<>>]

\* Portal::call(evt) with waiter w whose predicate produced out (keep or
\* resolve); with no waiter (w = NoTask) the event is dropped.
PortalDeliver(w, out) ==
    IF w = NoTask
    THEN UNCHANGED <<PORTALS, task>>
    ELSE IF out.act = "keep"
    THEN /\ task' = [task EXCEPT ![w].cmds = @ \o out.cmds]
         /\ UNCHANGED PORTALS
    ELSE /\ task' = [task EXCEPT ![w].cmds = @ \o out.cmds,
                                 ![w].res = out.res,
                                 ![w].pc = "woken"]
         /\ PORTALS' = [PORTALS EXCEPT ![L2capConn] = NoTask]

\* ------------------------------------------------------------------------
\* L2cap::init
\* ------------------------------------------------------------------------

\* Mutant: the first call claims the flag but installs no packet-free routine.
init_NoPacketFree ==
    /\ aborted = NotAborted
    /\ IF IS_INIT
       THEN Halt("L2cap::init() called multiple times.", "init", "none")
       ELSE /\ IS_INIT' = TRUE
            /\ UNCHANGED <<PACKET_FREE, PORTALS, task, channels, aborted, buf, hwCh>>
    /\ UNCHANGED <<tableVars, centralVars>>

init ==
    /\ aborted = NotAborted
    /\ IF IS_INIT
       THEN Halt("L2cap::init() called multiple times.", "init", "none")
       ELSE /\ IS_INIT' = TRUE
            /\ PACKET_FREE' = TRUE
            /\ UNCHANGED <<PORTALS, task, channels, aborted, buf, hwCh>>
    /\ UNCHANGED <<tableVars, centralVars>>

\* ------------------------------------------------------------------------
\* L2cap::setup and L2cap::listen_with
\* ------------------------------------------------------------------------

\* Mutant: the credit update is issued whatever the configured count.
CreditCmds_Always(cid, credits, fc) ==
    IF ~creditWorkaround
    THEN <<Cmd("ch_flow_control", cid, NoPkt, credits, fc)>>
    ELSE <<>>

\* The flow-control command that follows a successful setup: issued only
\* when the configured credits differ from the default of one, and compiled
\* out of a build with the credit workaround.
CreditCmds(cid, credits, fc) ==
    IF credits # 1 /\ ~creditWorkaround
    THEN <<Cmd("ch_flow_control", cid, NoPkt, credits, fc)>>
    ELSE <<>>

\* Whether that command was issued and rejected.
CreditsRefused(credits, fc) == credits # 1 /\ ~creditWorkaround /\ fc # "Ok"

\* The call of setup up to its suspension.  status is the status of
\* sd_ble_l2cap_ch_setup; the radio writes the channel id it allocates.
setup(t, credits, psm, status) ==
    /\ aborted = NotAborted
    /\ IS_INIT
    /\ task[t].pc = "idle"
    /\ status = "Ok" => NextCid # BLE_L2CAP_CID_INVALID
    /\ LET r == [task[t] EXCEPT !.op = "setup", !.credits = credits]
           cmd == Cmd("ch_setup", BLE_L2CAP_CID_INVALID, NoPkt, psm, status)
       IN  IF conn_handle.kind # "Ok"
           THEN /\ task' = [task EXCEPT ![t] =
                       Returns(r, Failure("Disconnected"))]
                /\ UNCHANGED <<PORTALS, aborted, hwCh, IS_INIT, PACKET_FREE, channels, buf>>
           ELSE IF status # "Ok"
           THEN /\ task' = [task EXCEPT ![t] =
                       Returns([r EXCEPT !.cmds = <<cmd>>], Failure("Raw"))]
                /\ UNCHANGED <<PORTALS, aborted, hwCh, IS_INIT, PACKET_FREE, channels, buf>>
           ELSE IF Occupied
           THEN Halt("Multiple tasks waiting on same portal", "setup", "none")
           ELSE /\ hwCh' = [hwCh EXCEPT ![NextCid] = "pending"]
                /\ Suspend(t, [r EXCEPT !.pc = "wait", !.cid = NextCid, !.cmds = <<cmd>>])
                /\ UNCHANGED <<aborted, IS_INIT, PACKET_FREE, channels, buf>>
    /\ UNCHANGED <<tableVars, centralVars>>

\* Mutant: an unexpected event is ignored, setup keeps waiting.
SetupPredicate_IgnoresOthers(r, e, fc) ==
    CASE e.id \in {"DISCONNECTED", "CH_RELEASED"} ->
            Resolves(Failure("Disconnected"), <<>>)
      [] e.id = "CH_SETUP" ->
            IF CreditsRefused(r.credits, fc)
            THEN Resolves(Failure("Raw"), CreditCmds(r.cid, r.credits, fc))
            ELSE Resolves(LRes("Ok", r.cid, NoPkt), CreditCmds(r.cid, r.credits, fc))
      [] e.id = "CH_SETUP_REFUSED" ->
            Resolves(Failure("Refused"), <<>>)
      [] OTHER -> Keeps(<<>>)

\* Mutant: a refused setup hands out a Channel all the same.
SetupPredicate_RefusedYieldsChannel(r, e, fc) ==
    CASE e.id \in {"DISCONNECTED", "CH_RELEASED"} ->
            Resolves(Failure("Disconnected"), <<>>)
      [] e.id = "CH_SETUP" ->
            IF CreditsRefused(r.credits, fc)
            THEN Resolves(Failure("Raw"), CreditCmds(r.cid, r.credits, fc))
            ELSE Resolves(LRes("Ok", r.cid, NoPkt), CreditCmds(r.cid, r.credits, fc))
      [] e.id = "CH_SETUP_REFUSED" ->
            Resolves(LRes("Ok", r.cid, NoPkt), <<>>)
      [] OTHER -> Panics

\* The wait_once predicate of setup.  r is the waiting future, fc the status
\* of sd_ble_l2cap_ch_flow_control.
SetupPredicate(r, e, fc) ==
    CASE e.id \in {"DISCONNECTED", "CH_RELEASED"} ->
            Resolves(Failure("Disconnected"), <<>>)
      [] e.id = "CH_SETUP" ->
            IF CreditsRefused(r.credits, fc)
            THEN Resolves(Failure("Raw"), CreditCmds(r.cid, r.credits, fc))
            ELSE Resolves(LRes("Ok", r.cid, NoPkt), CreditCmds(r.cid, r.credits, fc))
      [] e.id = "CH_SETUP_REFUSED" ->
            Resolves(Failure("Refused"), <<>>)
      [] OTHER -> Panics

\* The call of listen_with up to its suspension.  accept is the set of PSMs
\* the caller's accept_psm returns true for.
listen_with(t, credits, accept) ==
    /\ aborted = NotAborted
    /\ IS_INIT
    /\ task[t].pc = "idle"
    /\ LET r == [task[t] EXCEPT !.op = "listen", !.credits = credits,
                                !.accept = accept]
       IN  IF conn_handle.kind # "Ok"
           THEN /\ task' = [task EXCEPT ![t] =
                       Returns(r, Failure("Disconnected"))]
                /\ UNCHANGED <<PORTALS, aborted, hwCh, IS_INIT, PACKET_FREE, channels, buf>>
           ELSE IF Occupied
           THEN Halt("Multiple tasks waiting on same portal", "listen", "none")
           ELSE /\ Suspend(t, [r EXCEPT !.pc = "wait"])
                /\ UNCHANGED <<aborted, hwCh, IS_INIT, PACKET_FREE, channels, buf>>
    /\ UNCHANGED <<tableVars, centralVars>>

\* The response of listen_with to a setup request for psm: the
\* sd_ble_l2cap_ch_setup it answers with, named by its status code.
ListenResponse(accept, psm) ==
    IF psm \in accept THEN "ch_setup_SUCCESS" ELSE "ch_setup_LE_PSM_NOT_SUPPORTED"

\* Mutant: turning a request down ends the listen.
ListenPredicate_RejectEnds(r, e, st, fc) ==
    CASE e.id = "DISCONNECTED" ->
            Resolves(Failure("Disconnected"), <<>>)
      [] e.id = "CH_SETUP_REQUEST" ->
            LET resp == Cmd(ListenResponse(r.accept, e.psm), e.cid, NoPkt, e.psm, st)
            IN  IF ListenResponse(r.accept, e.psm) = "ch_setup_SUCCESS"
                THEN IF st # "Ok"
                     THEN Resolves(Failure("Raw"), <<resp>>)
                     ELSE IF CreditsRefused(r.credits, fc)
                     THEN Resolves(Failure("Raw"),
                                   <<resp>> \o CreditCmds(e.cid, r.credits, fc))
                     ELSE Resolves(LRes("Ok", e.cid, NoPkt),
                                   <<resp>> \o CreditCmds(e.cid, r.credits, fc))
                ELSE Resolves(Failure("Refused"), <<resp>>)
      [] OTHER -> Panics

\* The wait_many predicate of listen_with.  st is the status of the
\* sd_ble_l2cap_ch_setup response, fc that of sd_ble_l2cap_ch_flow_control.
ListenPredicate(r, e, st, fc) ==
    CASE e.id = "DISCONNECTED" ->
            Resolves(Failure("Disconnected"), <<>>)
      [] e.id = "CH_SETUP_REQUEST" ->
            LET resp == Cmd(ListenResponse(r.accept, e.psm), e.cid, NoPkt, e.psm, st)
            IN  IF ListenResponse(r.accept, e.psm) = "ch_setup_SUCCESS"
                THEN IF st # "Ok"
                     THEN Resolves(Failure("Raw"), <<resp>>)
                     ELSE IF CreditsRefused(r.credits, fc)
                     THEN Resolves(Failure("Raw"),
                                   <<resp>> \o CreditCmds(e.cid, r.credits, fc))
                     ELSE Resolves(LRes("Ok", e.cid, NoPkt),
                                   <<resp>> \o CreditCmds(e.cid, r.credits, fc))
                ELSE Keeps(<<resp>>)
      [] OTHER -> Panics

\* ------------------------------------------------------------------------
\* Channel::try_tx and Channel::tx
\* ------------------------------------------------------------------------

\* Mutant: a full queue is treated as any other error, the packet is dropped.
TryTx_FreesOnQueueFull(cid, sdu, status) ==
    LET raw == into_raw_parts(sdu)
        cmd == Cmd("ch_tx", cid, Pkt(raw[1], raw[2]), 0, status)
    IN  IF conn_handle.kind # "Ok"
        THEN [ret |-> LRes("Disconnected", cid, NoPkt), cmds |-> <<>>,
              buf |-> FreeBuf, panic |-> FALSE]
        ELSE IF raw[2] > MTU
        THEN [ret |-> NoLRes, cmds |-> <<>>, buf |-> FreeBuf, panic |-> TRUE]
        ELSE IF status # "Ok"
        THEN [ret |-> LRes("Raw", cid, NoPkt), cmds |-> <<cmd>>,
              buf |-> FreeBuf, panic |-> FALSE]
        ELSE [ret |-> LRes("Ok", cid, NoPkt), cmds |-> <<cmd>>,
              buf |-> Owned("hw_tx", cid), panic |-> FALSE]

\* Mutant: on an error other than queue-full the packet is not rebuilt;
\* nobody owns the buffer any more.
TryTx_LeaksOnError(cid, sdu, status) ==
    LET raw == into_raw_parts(sdu)
        cmd == Cmd("ch_tx", cid, Pkt(raw[1], raw[2]), 0, status)
    IN  IF conn_handle.kind # "Ok"
        THEN [ret |-> LRes("Disconnected", cid, NoPkt), cmds |-> <<>>,
              buf |-> FreeBuf, panic |-> FALSE]
        ELSE IF raw[2] > MTU
        THEN [ret |-> NoLRes, cmds |-> <<>>, buf |-> FreeBuf, panic |-> TRUE]
        ELSE IF status = "Resources"
        THEN [ret |-> LRes("TxQueueFull", cid, from_raw_parts(raw[1], raw[2])),
              cmds |-> <<cmd>>, buf |-> Owned("app", BLE_L2CAP_CID_INVALID),
              panic |-> FALSE]
        ELSE IF status # "Ok"
        THEN [ret |-> LRes("Raw", cid, NoPkt), cmds |-> <<cmd>>,
              buf |-> Owned("leaked", BLE_L2CAP_CID_INVALID), panic |-> FALSE]
        ELSE [ret |-> LRes("Ok", cid, NoPkt), cmds |-> <<cmd>>,
              buf |-> Owned("hw_tx", cid), panic |-> FALSE]

\* try_tx of packet sdu on channel cid, status being the status of
\* sd_ble_l2cap_ch_tx: the result, the command issued (if any), the new
\* owner of the buffer, and whether the assertion on the length failed.
TryTx(cid, sdu, status) ==
    LET raw == into_raw_parts(sdu)
        cmd == Cmd("ch_tx", cid, Pkt(raw[1], raw[2]), 0, status)
    IN  IF conn_handle.kind # "Ok"
        THEN [ret |-> LRes("Disconnected", cid, NoPkt), cmds |-> <<>>,
              buf |-> FreeBuf, panic |-> FALSE]
        ELSE IF raw[2] > MTU
        THEN [ret |-> NoLRes, cmds |-> <<>>, buf |-> FreeBuf, panic |-> TRUE]
        ELSE IF status = "Resources"
        THEN [ret |-> LRes("TxQueueFull", cid, from_raw_parts(raw[1], raw[2])),
              cmds |-> <<cmd>>, buf |-> Owned("app", BLE_L2CAP_CID_INVALID),
              panic |-> FALSE]
        ELSE IF status # "Ok"
        THEN [ret |-> LRes("Raw", cid, NoPkt), cmds |-> <<cmd>>,
              buf |-> FreeBuf, panic |-> FALSE]
        ELSE [ret |-> LRes("Ok", cid, NoPkt), cmds |-> <<cmd>>,
              buf |-> Owned("hw_tx", cid), panic |-> FALSE]

\* The radio accepts a transmit or receive command only on an open channel.
HwAccepts(cid, status) == status = "Ok" => hwCh[cid] = "open"

\* The application's packet for a transmit call: a buffer it owns, or the
\* next one of its allocator.
AppPacket(b) == buf[b].owner = "app" \/ b = NextFree

try_tx(t, cid, b, len, status) ==
    /\ aborted = NotAborted
    /\ IS_INIT
    /\ task[t].pc = "idle"
    /\ cid \in channels
    /\ AppPacket(b)
    /\ HwAccepts(cid, status)
    /\ LET out == TryTx(cid, Pkt(b, len), status)
       IN  IF out.panic
           THEN Halt("assertion failed: len <= P::MTU", "try_tx", "none")
           ELSE /\ task' = [task EXCEPT ![t] =
                       Returns([@ EXCEPT !.op = "try_tx", !.cid = cid,
                                         !.sdu = Pkt(b, len), !.cmds = out.cmds],
                               out.ret)]
                /\ buf' = [buf EXCEPT ![b] = out.buf]
                /\ UNCHANGED <<IS_INIT, PACKET_FREE, PORTALS, channels, aborted, hwCh>>
    /\ UNCHANGED <<tableVars, centralVars>>

\* Mutant: tx does not return after an accepted attempt; it waits and sends
\* the packet again.
TxAttempt_RetriesAfterAccept(t, r, status) ==
    LET out == TryTx(r.cid, r.sdu, status)
        r2 == [r EXCEPT !.cmds = @ \o out.cmds]
    IN  IF out.panic
        THEN Halt("assertion failed: len <= P::MTU", "tx", "none")
        ELSE IF out.ret.kind \in {"TxQueueFull", "Ok"}
        THEN IF Occupied
             THEN Halt("Multiple tasks waiting on same portal", "tx", "none")
             ELSE /\ Suspend(t, [r2 EXCEPT !.pc = "wait"])
                  /\ buf' = [buf EXCEPT ![r.sdu.ptr] =
                                IF out.ret.kind = "Ok" THEN out.buf
                                ELSE Owned("task", BLE_L2CAP_CID_INVALID)]
                  /\ UNCHANGED <<IS_INIT, PACKET_FREE, channels, aborted, hwCh>>
        ELSE /\ task' = [task EXCEPT ![t] = Returns(r2, out.ret)]
             /\ buf' = [buf EXCEPT ![r.sdu.ptr] = out.buf]
             /\ UNCHANGED <<IS_INIT, PACKET_FREE, PORTALS, channels, aborted, hwCh>>

\* One turn of the loop of tx for the future r of task t: try_tx, then
\* return, or keep the returned packet and suspend on the portal.
TxAttempt(t, r, status) ==
    LET out == TryTx(r.cid, r.sdu, status)
        r2 == [r EXCEPT !.cmds = @ \o out.cmds]
    IN  IF out.panic
        THEN Halt("assertion failed: len <= P::MTU", "tx", "none")
        ELSE IF out.ret.kind = "TxQueueFull"
        THEN IF Occupied
             THEN Halt("Multiple tasks waiting on same portal", "tx", "none")
             ELSE /\ Suspend(t, [r2 EXCEPT !.pc = "wait", !.sdu = out.ret.pkt])
                  /\ buf' = [buf EXCEPT ![out.ret.pkt.ptr] =
                                Owned("task", BLE_L2CAP_CID_INVALID)]
                  /\ UNCHANGED <<IS_INIT, PACKET_FREE, channels, aborted, hwCh>>
        ELSE /\ task' = [task EXCEPT ![t] = Returns(r2, out.ret)]
             /\ buf' = [buf EXCEPT ![r.sdu.ptr] = out.buf]
             /\ UNCHANGED <<IS_INIT, PACKET_FREE, PORTALS, channels, aborted, hwCh>>

tx(t, cid, b, len, status) ==
    /\ aborted = NotAborted
    /\ IS_INIT
    /\ task[t].pc = "idle"
    /\ cid \in channels
    /\ AppPacket(b)
    /\ HwAccepts(cid, status)
    /\ TxAttempt(t, [task[t] EXCEPT !.op = "tx", !.cid = cid, !.sdu = Pkt(b, len)],
                 status)
    /\ UNCHANGED <<tableVars, centralVars>>

\* The wait_once predicate of tx.
TxPredicate(e) ==
    CASE e.id \in {"CH_TX", "CH_RELEASED"} -> Resolves(LRes("()", e.cid, NoPkt), <<>>)
      [] OTHER -> Panics

\* tx is polled after its wait resolved: `continue`, the next try_tx.
TxResume(t, status) ==
    /\ aborted = NotAborted
    /\ task[t].pc = "woken"
    /\ task[t].op = "tx"
    /\ HwAccepts(task[t].cid, status)
    /\ status = "Resources" => Len(task[t].cmds) < MaxTxAttempts
    /\ TxAttempt(t, task[t], status)
    /\ UNCHANGED <<tableVars, centralVars>>

\* ------------------------------------------------------------------------
\* Channel::rx
\* ------------------------------------------------------------------------

\* credit_hack_refill: the sequences of flow-control commands it may issue.
\* It queries the credits left and returns if the query fails or enough are
\* left; otherwise it raises them to CREDITS_MAX and, if that was accepted,
\* issues a last update of zero whose status is only logged.
credit_hack_refill(cid) ==
    LET query(st) == Cmd("ch_flow_control_query", cid, NoPkt, 0, st)
        update(n, st) == Cmd("ch_flow_control", cid, NoPkt, n, st)
    IN  {<<query("Err")>>, <<query("Ok")>>,
         <<query("Ok"), update(CREDITS_MAX, "Err")>>}
        \cup {<<query("Ok"), update(CREDITS_MAX, "Ok"), update(0, st)>> :
                 st \in {"Ok", "Err"}}

\* The commands rx issues between sd_ble_l2cap_ch_rx and its wait.
RxRefill(cid) == IF creditWorkaround THEN credit_hack_refill(cid) ELSE {<<>>}

\* The call of rx up to its suspension.  b is the buffer P::allocate()
\* returns (NullPtr: None), status the status of sd_ble_l2cap_ch_rx.
rx(t, cid, b, status) ==
    /\ aborted = NotAborted
    /\ IS_INIT
    /\ task[t].pc = "idle"
    /\ cid \in channels
    /\ b \in {NullPtr, NextFree}
    /\ HwAccepts(cid, status)
    /\ LET r == [task[t] EXCEPT !.op = "rx", !.cid = cid]
           cmd == Cmd("ch_rx", cid, Pkt(b, MTU), 0, status)
       IN  IF conn_handle.kind # "Ok"
           THEN /\ task' = [task EXCEPT ![t] =
                       Returns(r, LRes("Disconnected", cid, NoPkt))]
                /\ UNCHANGED <<PORTALS, aborted, buf, IS_INIT, PACKET_FREE, channels, hwCh>>
           ELSE IF b = NullPtr
           THEN /\ task' = [task EXCEPT ![t] =
                       Returns(r, LRes("AllocateFailed", cid, NoPkt))]
                /\ UNCHANGED <<PORTALS, aborted, buf, IS_INIT, PACKET_FREE, channels, hwCh>>
           ELSE IF status # "Ok"
           THEN /\ task' = [task EXCEPT ![t] =
                       Returns([r EXCEPT !.sdu = Pkt(b, 0), !.cmds = <<cmd>>],
                               LRes("Raw", cid, NoPkt))]
                /\ buf' = [buf EXCEPT ![b] = FreeBuf]
                /\ UNCHANGED <<PORTALS, aborted, IS_INIT, PACKET_FREE, channels, hwCh>>
           ELSE IF Occupied
           THEN Halt("Multiple tasks waiting on same portal", "rx", "none")
           ELSE /\ buf' = [buf EXCEPT ![b] = Owned("hw_rx", cid)]
                /\ \E refill \in RxRefill(cid) :
                      Suspend(t, [r EXCEPT !.pc = "wait", !.sdu = Pkt(b, 0),
                                           !.cmds = <<cmd>> \o refill])
                /\ UNCHANGED <<aborted, IS_INIT, PACKET_FREE, channels, hwCh>>
    /\ UNCHANGED <<tableVars, centralVars>>

\* Mutant: the disconnect event is not handled, rx keeps waiting.
RxPredicate_IgnoresDisconnect(e) ==
    CASE e.id = "CH_RELEASED" ->
            Resolves(LRes("Disconnected", e.cid, NoPkt), <<>>)
      [] e.id = "CH_RX" ->
            Resolves(LRes("Ok", e.cid, from_raw_parts(e.ptr, e.len)), <<>>)
      [] OTHER -> Keeps(<<>>)

\* The wait_many predicate of rx.
RxPredicate(e) ==
    CASE e.id \in {"DISCONNECTED", "CH_RELEASED"} ->
            Resolves(LRes("Disconnected", e.cid, NoPkt), <<>>)
      [] e.id = "CH_RX" ->
            Resolves(LRes("Ok", e.cid, from_raw_parts(e.ptr, e.len)), <<>>)
      [] OTHER -> Keeps(<<>>)

\* The predicate of the future r on event e.
Predicate(r, e, st, fc) ==
    CASE r.op = "setup" -> SetupPredicate(r, e, fc)
      [] r.op = "listen" -> ListenPredicate(r, e, st, fc)
      [] r.op = "tx" -> TxPredicate(e)
      [] r.op = "rx" -> RxPredicate(e)
      [] OTHER -> Panics

\* ------------------------------------------------------------------------
\* Resumption, abandonment and reuse of the channel futures
\* ------------------------------------------------------------------------

\* setup, listen_with or rx is polled after its wait resolved: the result
\* is returned; a Channel or a received packet passes to the application.
Resume(t) ==
    /\ aborted = NotAborted
    /\ task[t].pc = "woken"
    /\ task[t].op \in {"setup", "listen", "rx"}
    /\ task' = [task EXCEPT ![t] = Returns(task[t], task[t].res)]
    /\ channels' = IF task[t].op \in {"setup", "listen"} /\ task[t].res.kind = "Ok"
                   THEN channels \cup {task[t].res.cid}
                   ELSE channels
    /\ buf' = IF task[t].op = "rx" /\ task[t].res.kind = "Ok"
              THEN [buf EXCEPT ![task[t].res.pkt.ptr] =
                       Owned("app", BLE_L2CAP_CID_INVALID)]
              ELSE buf
    /\ UNCHANGED <<IS_INIT, PACKET_FREE, PORTALS, aborted, hwCh>>
    /\ UNCHANGED <<tableVars, centralVars>>

\* The buffer a suspended future holds: the packet tx keeps between its
\* attempts, or the packet the portal stored as the result of rx.
HeldBuffer(r) ==
    IF r.op = "tx" THEN r.sdu.ptr
    ELSE IF r.op = "rx" /\ r.pc = "woken" /\ r.res.kind = "Ok" THEN r.res.pkt.ptr
    ELSE NullPtr

\* The future of task t is dropped at its suspension point: the portal
\* forgets the waiter and the packet the future holds is dropped.
Abandon(t) ==
    /\ aborted = NotAborted
    /\ task[t].pc \in {"wait", "woken"}
    /\ task' = [task EXCEPT ![t] =
                   [IdleTask EXCEPT !.pc = "abandoned", !.op = task[t].op,
                                    !.cid = task[t].cid, !.cmds = task[t].cmds]]
    /\ PORTALS' = [PORTALS EXCEPT ![L2capConn] = IF @ = t THEN NoTask ELSE @]
    /\ buf' = IF HeldBuffer(task[t]) # NullPtr
              THEN [buf EXCEPT ![HeldBuffer(task[t])] = FreeBuf]
              ELSE buf
    /\ UNCHANGED <<IS_INIT, PACKET_FREE, channels, aborted, hwCh>>
    /\ UNCHANGED <<tableVars, centralVars>>

\* The caller is done with the call; a later call starts afresh.
Forget(t) ==
    /\ aborted = NotAborted
    /\ task[t].pc \in {"done", "abandoned"}
    /\ task' = [task EXCEPT ![t] = IdleTask]
    /\ UNCHANGED <<IS_INIT, PACKET_FREE, PORTALS, channels, aborted, buf, hwCh>>
    /\ UNCHANGED <<tableVars, centralVars>>

\* The application drops a packet it owns.
AppFree(b) ==
    /\ aborted = NotAborted
    /\ buf[b].owner = "app"
    /\ buf' = [buf EXCEPT ![b] = FreeBuf]
    /\ UNCHANGED <<IS_INIT, PACKET_FREE, PORTALS, task, channels, aborted, hwCh>>
    /\ UNCHANGED <<tableVars, centralVars>>

\* ------------------------------------------------------------------------
\* Events of the radio controller and l2cap::on_evt
\* ------------------------------------------------------------------------

L2capEvents ==
    {Evt(id, c, NullPtr, 0, 0) :
        id \in {"CH_CREDIT", "CH_SETUP", "CH_SETUP_REFUSED", "CH_RELEASED"}, c \in Cids}
    \cup {Evt("CH_SETUP_REQUEST", c, NullPtr, 0, psm) : c \in Cids, psm \in PSMs}
    \cup {Evt(id, c, b, 0, 0) : id \in {"CH_TX", "CH_SDU_BUF_RELEASED"}, c \in Cids, b \in Ptrs}
    \cup {Evt("CH_RX", c, b, len, 0) : c \in Cids, b \in Ptrs, len \in RxLens}

DisconnectedEvt == Evt("DISCONNECTED", BLE_L2CAP_CID_INVALID, NullPtr, 0, 0)

\* The events the radio can raise in the current state.
HwCanEmit(e) ==
    CASE e.id = "CH_CREDIT" -> hwCh[e.cid] = "open"
      [] e.id = "CH_SETUP_REQUEST" -> connected[L2capConn] /\ e.cid = NextCid
      [] e.id \in {"CH_SETUP", "CH_SETUP_REFUSED"} -> hwCh[e.cid] = "pending"
      [] e.id = "CH_RELEASED" -> hwCh[e.cid] # "closed"
      [] e.id = "CH_TX" ->
            buf[e.ptr] = Owned("hw_tx", e.cid) /\ hwCh[e.cid] = "open"
      [] e.id = "CH_RX" ->
            buf[e.ptr] = Owned("hw_rx", e.cid) /\ hwCh[e.cid] = "open"
      [] e.id = "CH_SDU_BUF_RELEASED" ->
            buf[e.ptr] \in {Owned("hw_tx", e.cid), Owned("hw_rx", e.cid)}
            /\ hwCh[e.cid] # "open"
      [] OTHER -> FALSE

\* State of channel e.cid in the radio once it has raised e.
HwChAfterEvent(e) ==
    CASE e.id = "CH_SETUP_REQUEST" -> "req"
      [] e.id = "CH_SETUP" -> "open"
      [] e.id \in {"CH_SETUP_REFUSED", "CH_RELEASED"} -> "closed"
      [] OTHER -> hwCh[e.cid]

\* State of a requested channel once the radio has taken the responses
\* among cmds: an accepted SUCCESS response opens it, an accepted refusal
\* closes it.
HwChAfterCmds(st, cmds) ==
    IF \E i \in 1 .. Len(cmds) : cmds[i].c = "ch_setup_SUCCESS" /\ cmds[i].status = "Ok"
    THEN "open"
    ELSE IF \E i \in 1 .. Len(cmds) :
                cmds[i].c = "ch_setup_LE_PSM_NOT_SUPPORTED" /\ cmds[i].status = "Ok"
    THEN "closed"
    ELSE st

\* Mutant: the transmit-completed event bypasses the portal as well.
RoutedToPortal_TxDirect(e) == e.id \notin {"CH_CREDIT", "CH_SDU_BUF_RELEASED", "CH_TX"}

\* Whether on_evt hands the event to the portal of the connection.
RoutedToPortal(e) == e.id \notin {"CH_CREDIT", "CH_SDU_BUF_RELEASED"}

\* Whether on_evt frees the buffer the event names through PACKET_FREE.
FreedByOnEvt(e) == e.id \in {"CH_SDU_BUF_RELEASED", "CH_TX"}

\* The panic message of the predicate of the future r.
PredicatePanic(r) == IF r.op = "tx" THEN "Invalid event" ELSE "unexpected event"

\* l2cap::on_evt for event e.  st and fc are the statuses of the commands
\* the predicate of a waiting listen_with or setup may issue (left at "Ok"
\* for the events that make no predicate issue them).
on_evt(e, st, fc) ==
    /\ aborted = NotAborted
    /\ HwCanEmit(e)
    /\ e.id # "CH_SETUP_REQUEST" => st = "Ok"
    /\ e.id \notin {"CH_SETUP_REQUEST", "CH_SETUP"} => fc = "Ok"
    /\ LET w == IF RoutedToPortal(e) THEN PORTALS[L2capConn] ELSE NoTask
           out == IF w = NoTask THEN Keeps(<<>>) ELSE Predicate(task[w], e, st, fc)
       IN  /\ out.act = "keep" /\ out.cmds # <<>> => Len(task[w].cmds) < MaxRejects
           /\ IF out.act = "panic"
              THEN Halt(PredicatePanic(task[w]), task[w].op, e.id)
              ELSE IF FreedByOnEvt(e) /\ ~PACKET_FREE
              THEN Halt("unwrap failed: PACKET_FREE", "on_evt", e.id)
              ELSE /\ PortalDeliver(w, out)
                   /\ hwCh' = [hwCh EXCEPT ![e.cid] =
                                  HwChAfterCmds(HwChAfterEvent(e), out.cmds)]
                   /\ buf' =
                        IF FreedByOnEvt(e)
                        THEN [buf EXCEPT ![e.ptr] = FreeBuf]
                        ELSE IF e.id = "CH_RX"
                        THEN [buf EXCEPT ![e.ptr] =
                                 IF w # NoTask
                                 THEN Owned("task", BLE_L2CAP_CID_INVALID)
                                 ELSE Owned("leaked", BLE_L2CAP_CID_INVALID)]
                        ELSE buf
                   /\ UNCHANGED <<IS_INIT, PACKET_FREE, channels, aborted>>
    /\ UNCHANGED <<tableVars, centralVars>>

\* BLE_GAP_EVT_CONNECTED on the link of the channel driver (either role).
LinkConnected ==
    /\ aborted = NotAborted
    /\ ~connected[L2capConn]
    /\ StateOnConnected(L2capConn)
    /\ UNCHANGED <<tx_phys, rx_phys>>
    /\ UNCHANGED <<centralVars, l2capVars>>

\* BLE_GAP_EVT_DISCONNECTED on the link of the channel driver: the state is
\* reset, then the event is handed to the portal of the connection; the
\* radio has closed the channels of the link.
LinkDisconnected ==
    /\ aborted = NotAborted
    /\ connected[L2capConn]
    /\ StateOnDisconnected(L2capConn)
    /\ LET w == PORTALS[L2capConn]
           out == IF w = NoTask THEN Keeps(<<>>)
                  ELSE Predicate(task[w], DisconnectedEvt, "Ok", "Ok")
       IN  IF out.act = "panic"
           THEN Halt(PredicatePanic(task[w]), task[w].op, DisconnectedEvt.id)
           ELSE /\ PortalDeliver(w, out)
                /\ hwCh' = [c \in Cids |-> "closed"]
                /\ UNCHANGED <<IS_INIT, PACKET_FREE, channels, buf, aborted>>
    /\ UNCHANGED centralVars

\* ------------------------------------------------------------------------
\* Specifications
\* ------------------------------------------------------------------------

InitL2cap ==
    /\ IS_INIT = FALSE
    /\ PACKET_FREE = FALSE
    /\ PORTALS = [h \in Handles |-> NoTask]
    /\ task = [t \in Tasks |-> IdleTask]
    /\ channels = {}
    /\ aborted = NotAborted
    /\ buf = [b \in Ptrs |-> FreeBuf]
    /\ hwCh = [c \in Cids |-> "closed"]

vars == <<tableVars, centralVars, l2capVars>>

\* The central role: connect, scan and the connection-state table, in
\* either build (with or without the GATT client).
Init ==
    /\ InitTable
    /\ InitCentral
    /\ gattClient \in BOOLEAN
    /\ creditWorkaround = FALSE
    /\ InitL2cap

Next ==
    \/ \E n \in WhitelistLens, cfg \in Configs, accepted \in BOOLEAN :
          connect(n, cfg, accepted) /\ UNCHANGED l2capVars
    \/ \E h \in Handles : GapConnected(h) /\ UNCHANGED l2capVars
    \/ GapConnectTimeout /\ UNCHANGED l2capVars
    \/ ConnectResume /\ UNCHANGED l2capVars
    \/ \E ok \in BOOLEAN : MtuExchangeDone(ok) /\ UNCHANGED l2capVars
    \/ ConnectAbandon /\ UNCHANGED l2capVars
    \/ ConnectForget /\ UNCHANGED l2capVars
    \/ \E accepted \in BOOLEAN : scan(accepted) /\ UNCHANGED l2capVars
    \/ \E final \in BOOLEAN, resumed \in BOOLEAN :
          on_adv_report(final, resumed) /\ UNCHANGED l2capVars
    \/ GapScanTimeout /\ UNCHANGED l2capVars
    \/ ScanResume /\ UNCHANGED l2capVars
    \/ ScanAbandon /\ UNCHANGED l2capVars
    \/ ScanForget /\ UNCHANGED l2capVars
    \/ \E h \in Handles : GapDisconnected(h) /\ UNCHANGED l2capVars

Spec == Init /\ [][Next]_vars

\* The channel driver on one link, with its application tasks.
InitL ==
    /\ InitTable
    /\ InitCentral
    /\ gattClient = FALSE
    /\ creditWorkaround = FALSE
    /\ InitL2cap

CmdStatus == {"Ok", "Resources", "Err"}

NextL ==
    \/ init
    \/ LinkConnected
    \/ LinkDisconnected
    \/ \E t \in {1}, credits \in CreditCounts, psm \in PSMs, status \in {"Ok", "Err"} :
          setup(t, credits, psm, status)
    \/ \E t \in {1}, credits \in CreditCounts, psm \in PSMs :
          listen_with(t, credits, {psm})
    \/ \E t \in {1}, cid \in Cids, b \in Ptrs, len \in TxLens, status \in CmdStatus :
          try_tx(t, cid, b, len, status)
    \/ \E t \in {1}, cid \in Cids, b \in Ptrs, len \in TxLens, status \in CmdStatus :
          tx(t, cid, b, len, status)
    \/ \E t \in {1}, status \in CmdStatus : TxResume(t, status)
    \/ \E t \in {1}, cid \in Cids, b \in Ptrs \cup {NullPtr}, status \in {"Ok", "Err"} :
          rx(t, cid, b, status)
    \/ \E t \in {1} : Resume(t)
    \/ \E t \in {1} : Abandon(t)
    \/ \E t \in {1} : Forget(t)
    \/ \E b \in Ptrs : AppFree(b)
    \/ \E e \in L2capEvents, st \in {"Ok", "Err"}, fc \in {"Ok", "Err"} : on_evt(e, st, fc)

SpecL2cap == InitL /\ [][NextL]_vars

\* Two application tasks sharing the channels of one link (clones of the
\* Channel values).  The link is up, the driver initialized and channel 64
\* established and handed to the application: a state SpecL2cap reaches.
\* Each task runs one operation.
InitTasks ==
    /\ InitCentral
    /\ gattClient = FALSE
    /\ creditWorkaround = FALSE
    /\ connected = [h \in Handles |-> h = L2capConn]
    /\ everConnected = [h \in Handles |-> h = L2capConn]
    /\ discSince = [h \in Handles |-> FALSE]
    /\ tx_phys = [h \in Handles |-> BLE_GAP_PHY_AUTO]
    /\ rx_phys = [h \in Handles |-> BLE_GAP_PHY_AUTO]
    /\ IS_INIT = TRUE
    /\ PACKET_FREE = TRUE
    /\ PORTALS = [h \in Handles |-> NoTask]
    /\ task = [t \in Tasks |-> IdleTask]
    /\ channels = {64}
    /\ aborted = NotAborted
    /\ buf = [b \in Ptrs |-> FreeBuf]
    /\ hwCh = [c \in Cids |-> IF c = 64 THEN "open" ELSE "closed"]

NextTasks ==
    \/ LinkDisconnected
    \/ \E t \in Tasks, status \in {"Ok", "Err"} : setup(t, 1, 37, status)
    \/ \E t \in Tasks : listen_with(t, 1, {37})
    \/ \E t \in Tasks, cid \in Cids, b \in Ptrs, len \in TxLens, status \in CmdStatus :
          try_tx(t, cid, b, len, status)
    \/ \E t \in Tasks, cid \in Cids, b \in Ptrs, len \in TxLens, status \in CmdStatus :
          tx(t, cid, b, len, status)
    \/ \E t \in Tasks, status \in CmdStatus : TxResume(t, status)
    \/ \E t \in Tasks, cid \in Cids, b \in Ptrs \cup {NullPtr}, status \in {"Ok", "Err"} :
          rx(t, cid, b, status)
    \/ \E t \in Tasks : Resume(t)
    \/ \E t \in Tasks : Abandon(t)
    \/ \E b \in Ptrs : AppFree(b)
    \/ \E e \in L2capEvents : on_evt(e, "Ok", "Ok")

SpecTasks == InitTasks /\ [][NextTasks]_vars

\* One task receiving on the channels of one link, from the state InitTasks.
\* The radio gives up every receive buffer it holds, with a receive-complete
\* event while the channel is open and with an SDU-buffer-released event
\* once it is closed, and the executor polls a task that was woken; nothing
\* obliges the application to keep its rx future alive.
NextRx ==
    \/ LinkDisconnected
    \/ \E cid \in Cids, b \in Ptrs \cup {NullPtr}, status \in {"Ok", "Err"} :
          rx(1, cid, b, status)
    \/ Resume(1)
    \/ Abandon(1)
    \/ Forget(1)
    \/ \E b \in Ptrs : AppFree(b)
    \/ \E e \in L2capEvents : on_evt(e, "Ok", "Ok")

RadioReturns(b) ==
    \E e \in L2capEvents :
        /\ e.ptr = b
        /\ e.id \in {"CH_RX", "CH_SDU_BUF_RELEASED"}
        /\ on_evt(e, "Ok", "Ok")

SpecRxFair ==
    /\ InitTasks
    /\ [][NextRx]_vars
    /\ \A b \in Ptrs : WF_vars(RadioReturns(b))
    /\ WF_vars(Resume(1))

\* One task setting up, accepting and receiving on the channels of one
\* link, in either build (with or without the credit workaround), from the
\* state of InitTasks.
InitCredits ==
    /\ InitCentral
    /\ gattClient = FALSE
    /\ creditWorkaround \in BOOLEAN
    /\ connected = [h \in Handles |-> h = L2capConn]
    /\ everConnected = [h \in Handles |-> h = L2capConn]
    /\ discSince = [h \in Handles |-> FALSE]
    /\ tx_phys = [h \in Handles |-> BLE_GAP_PHY_AUTO]
    /\ rx_phys = [h \in Handles |-> BLE_GAP_PHY_AUTO]
    /\ IS_INIT = TRUE
    /\ PACKET_FREE = TRUE
    /\ PORTALS = [h \in Handles |-> NoTask]
    /\ task = [t \in Tasks |-> IdleTask]
    /\ channels = {64}
    /\ aborted = NotAborted
    /\ buf = [b \in Ptrs |-> FreeBuf]
    /\ hwCh = [c \in Cids |-> IF c = 64 THEN "open" ELSE "closed"]

NextCredits ==
    \/ LinkDisconnected
    \/ \E credits \in CreditCounts, psm \in PSMs, status \in {"Ok", "Err"} :
          setup(1, credits, psm, status)
    \/ \E credits \in CreditCounts, psm \in PSMs : listen_with(1, credits, {psm})
    \/ \E cid \in Cids, b \in Ptrs \cup {NullPtr}, status \in {"Ok", "Err"} :
          rx(1, cid, b, status)
    \/ Resume(1)
    \/ Abandon(1)
    \/ Forget(1)
    \/ \E b \in Ptrs : AppFree(b)
    \/ \E e \in L2capEvents, st \in {"Ok", "Err"}, fc \in {"Ok", "Err"} : on_evt(e, st, fc)

SpecCredits == InitCredits /\ [][NextCredits]_vars

\* ------------------------------------------------------------------------
\* Properties of the central role
\* ------------------------------------------------------------------------

\* C1 (as stated): a connect abandoned while suspended on the connect portal,
\* before the portal resolved, has issued exactly one cancel-connect command;
\* once the connect portal has resolved successfully, no cancel-connect
\* command is issued by abandoning or completing the call.
C1_AsStated ==
    /\ (cpc = "abandoned" /\ droppedAt = "wait") => cancelCmds = 1
    /\ connRes.kind = "Ok" => cancelCmds = 0

\* C1 (amended): a connect abandoned before the portal resolved has issued
\* exactly one cancel-connect command; once the task has resumed from a
\* successful resolution, abandoning it (during the MTU exchange) or
\* completing it issues none; a connect abandoned after the portal resolved
\* but before the task resumed still issues exactly one.
C1_CancelOnAbandon ==
    /\ (cpc = "abandoned" /\ droppedAt = "wait") => cancelCmds = 1
    /\ (cpc = "abandoned" /\ droppedAt = "woken") => cancelCmds = 1
    /\ (cpc = "abandoned" /\ droppedAt = "mtu") => cancelCmds = 0
    /\ (cpc \in {"mtu", "panic"} /\ connRes.kind = "Ok") => cancelCmds = 0
    /\ (cpc = "done" /\ connRet.kind = "Ok") => cancelCmds = 0

C1_Witness ==
    /\ cpc = "abandoned"
    /\ droppedAt = "wait"
    /\ connectCmds = 1
    /\ cancelCmds = 1

\* C6: after connect returned Ok(h), and while no disconnect of h has been
\* processed, the state of h is connected, its tx PHY is the configured tx
\* PHY preference and its rx PHY the configured rx PHY preference.
C6_ConfiguredPhys ==
    \A h \in Handles :
        (cpc = "done" /\ connRet = Ok(h) /\ ~discSince[h]) =>
            /\ connected[h]
            /\ tx_phys[h] = config.tx_phys
            /\ rx_phys[h] = config.rx_phys

\* C7: when the MTU exchange that follows a successful connect fails,
\* connect has not aborted: it returns the established connection.
C7_MtuFailureKeepsConnection ==
    mtuResult = "failed" =>
        /\ cpc = "done"
        /\ connRet.kind = "Ok"
        /\ connRet = connRes

\* C8 (as stated): a scan abandoned before resolution has issued exactly one
\* stop-scan command, and a scan that returned the callback's final result
\* has issued none.
C8_AsStated ==
    /\ (spc = "abandoned" /\ scanRes = NoRes) => stopCmds = 1
    /\ (spc = "done" /\ scanRet.kind = "Ok") => stopCmds = 0

\* C8 (amended): the guard of scan is never defused.  A scan abandoned at
\* its suspension point has issued exactly one stop-scan command, and so has
\* a scan that returned after its start command was accepted, whatever the
\* result; a scan that is still suspended has issued none.
C8_StopOnEveryExit ==
    /\ spc = "abandoned" => stopCmds = 1
    /\ (spc = "done" /\ scanRet.kind \in {"Ok", "Timeout"}) => stopCmds = 1
    /\ (spc = "done" /\ fCalls > 0) => stopCmds = 1
    /\ spc \in {"idle", "wait", "woken"} => stopCmds = 0

C8_Witness ==
    /\ spc = "done"
    /\ scanRet.kind = "Ok"
    /\ fCalls = 2
    /\ stopCmds = 1

\* C10: for every handle h, check_connected fails exactly when no
\* connect-success event has been processed for h or a disconnect of h has
\* been processed since the last one.
C10_CheckConnected ==
    \A h \in Handles :
        (check_connected(h).kind # "Ok") <=> (~everConnected[h] \/ discSince[h])

C10_Witness ==
    \E h \in Handles :
        /\ everConnected[h]
        /\ discSince[h]
        /\ check_connected(h) = Err("Disconnected")
        /\ cpc = "done"
        /\ connRet = Ok(h)

\* ------------------------------------------------------------------------
\* Properties of the channel driver
\* ------------------------------------------------------------------------

\* C2: a tx that was suspended on a full queue returns Ok once its retried
\* transmit command is accepted; and a disconnect event delivered while tx
\* is suspended does not abort the firmware (tx returns Disconnected).
C2_TxOkOrDisconnected ==
    /\ \A t \in Tasks :
          (task[t].pc = "done" /\ task[t].op = "tx" /\ Len(task[t].cmds) >= 2
             /\ task[t].cmds[Len(task[t].cmds)].status = "Ok") =>
                task[t].ret.kind = "Ok"
    /\ aborted.op = "tx" => aborted.evt # "DISCONNECTED"

\* C3: when the radio answers the transmit command of try_tx with "no
\* resources", try_tx returns TxQueueFull with the packet it was passed (same
\* pointer, same length), the buffer is the application's again and not
\* freed, and that one rejected transmit command is all try_tx did: no
\* other command, no waiter, no other buffer touched.
C3_QueueFullReturnsPacket ==
    [][\A t \in Tasks :
          (/\ task[t].pc = "idle"
           /\ task'[t].pc = "done"
           /\ task'[t].op = "try_tx"
           /\ task'[t].cmds # <<>>
           /\ task'[t].cmds[1].status = "Resources") =>
              /\ task'[t].ret = LRes("TxQueueFull", task'[t].cid, task'[t].sdu)
              /\ task'[t].cmds =
                    <<Cmd("ch_tx", task'[t].cid, task'[t].sdu, 0, "Resources")>>
              /\ buf'[task'[t].sdu.ptr].owner = "app"
              /\ \A b \in Ptrs \ {task'[t].sdu.ptr} : buf'[b] = buf[b]
              /\ PORTALS' = PORTALS
              /\ hwCh' = hwCh]_vars

C3_Witness ==
    \E t \in Tasks :
        /\ task[t].pc = "done"
        /\ task[t].op = "try_tx"
        /\ task[t].ret.kind = "TxQueueFull"
        /\ task[t].ret.pkt = Pkt(task[t].sdu.ptr, 1)
        /\ buf[task[t].sdu.ptr].owner = "app"

\* C4: when the disconnect event of the link is delivered to an rx that is
\* suspended with its buffer at the radio, rx resolves with Disconnected and
\* carries no packet, the buffer stays with the radio, and the return of rx
\* hands no buffer to the application.
C4_RxDisconnected ==
    [][\A t \in Tasks :
          /\ (/\ task[t].op = "rx"
              /\ task[t].pc = "wait"
              /\ connected[L2capConn]
              /\ ~connected'[L2capConn]) =>
                 /\ task'[t].pc = "woken"
                 /\ task'[t].res.kind = "Disconnected"
                 /\ task'[t].res.pkt = NoPkt
                 /\ PORTALS'[L2capConn] = NoTask
                 /\ buf' = buf
                 /\ buf[task[t].sdu.ptr].owner = "hw_rx"
          /\ (/\ task[t].op = "rx"
              /\ task[t].pc = "woken"
              /\ task[t].res.kind = "Disconnected"
              /\ task'[t].pc = "done") =>
                 /\ task'[t].ret.kind = "Disconnected"
                 /\ task'[t].ret.pkt = NoPkt
                 /\ buf' = buf]_vars

C4_Witness ==
    \E t \in Tasks :
        /\ task[t].pc = "done"
        /\ task[t].op = "rx"
        /\ task[t].ret.kind = "Disconnected"
        /\ task[t].cmds # <<>>
        /\ ~connected[L2capConn]
        /\ buf[task[t].sdu.ptr].owner = "hw_rx"

\* C5 (as stated): a listen_with that answered a setup request with the
\* accept response has resolved with the new channel, and a listen_with
\* that is still waiting has answered with reject responses only.
C5_AsStated ==
    \A w \in Tasks :
        /\ (/\ task[w].op = "listen"
            /\ task[w].pc = "woken"
            /\ \E i \in 1 .. Len(task[w].cmds) : task[w].cmds[i].c = "ch_setup_SUCCESS") =>
               task[w].res.kind = "Ok"
        /\ (task[w].op = "listen" /\ task[w].pc = "wait") =>
               \A i \in 1 .. Len(task[w].cmds) :
                   task[w].cmds[i].c = "ch_setup_LE_PSM_NOT_SUPPORTED"

\* C5 (amended): while listen_with waits it is the registered waiter, and
\* for every setup request: if the PSM is accepted, the accept response is
\* issued and the listener stops waiting, resolving with the new channel
\* when the radio accepts the response (and the credit update, if one is
\* due) and with the wrapped error otherwise; if the PSM is rejected, the
\* reject response is issued and the listener stays registered, whatever the
\* status of that command.
C5_ListenResponses ==
    [][\A w \in Tasks :
          (task[w].op = "listen" /\ task[w].pc = "wait") =>
             /\ PORTALS[L2capConn] = w
             /\ \A e \in L2capEvents, st \in CmdStatus, fc \in CmdStatus :
                   e.id = "CH_SETUP_REQUEST" =>
                      LET out == ListenPredicate(task[w], e, st, fc)
                      IN  IF e.psm \in task[w].accept
                          THEN /\ out.act = "resolve"
                               /\ out.cmds[1] =
                                     Cmd("ch_setup_SUCCESS", e.cid, NoPkt, e.psm, st)
                               /\ out.res =
                                     IF st = "Ok" /\ (task[w].credits = 1 \/ fc = "Ok")
                                     THEN LRes("Ok", e.cid, NoPkt)
                                     ELSE Failure("Raw")
                          ELSE /\ out.act = "keep"
                               /\ out.cmds =
                                     <<Cmd("ch_setup_LE_PSM_NOT_SUPPORTED", e.cid,
                                           NoPkt, e.psm, st)>>
             /\ Len(task'[w].cmds) > Len(task[w].cmds) =>
                   LET resp == task'[w].cmds[Len(task[w].cmds) + 1]
                   IN  IF resp.c = "ch_setup_SUCCESS"
                       THEN /\ task'[w].pc = "woken"
                            /\ PORTALS'[L2capConn] = NoTask
                            /\ task'[w].res.kind \in {"Ok", "Raw"}
                            /\ task'[w].res.kind = "Ok" <=>
                                  \A i \in Len(task[w].cmds) + 1 .. Len(task'[w].cmds) :
                                      task'[w].cmds[i].status = "Ok"
                            /\ task'[w].res.kind = "Ok" => task'[w].res.cid = resp.cid
                       ELSE /\ task'[w].pc = "wait"
                            /\ PORTALS'[L2capConn] = w
                            /\ task'[w].accept = task[w].accept]_vars

C5_Witness ==
    \E w \in Tasks :
        /\ task[w].op = "listen"
        /\ task[w].pc = "woken"
        /\ Len(task[w].cmds) >= 2
        /\ task[w].cmds[1].c = "ch_setup_LE_PSM_NOT_SUPPORTED"
        /\ task[w].cmds[1].status = "Err"
        /\ task[w].cmds[2].c = "ch_setup_SUCCESS"
        /\ task[w].cmds[2].status = "Err"
        /\ task[w].res.kind = "Raw"

\* C9: a call of setup, listen_with, try_tx, tx or rx on a link that is not
\* connected returns Disconnected at once: no command is issued, no waiter
\* is registered, the radio is not touched, and no buffer is allocated or
\* handed over (the packet passed to try_tx or tx is dropped).
C9_FailFastWhenDisconnected ==
    [][\A t \in Tasks :
          (task[t].pc = "idle" /\ task'[t].pc # "idle" /\ ~connected[L2capConn]) =>
             /\ task'[t].pc = "done"
             /\ task'[t].op \in {"setup", "listen", "try_tx", "tx", "rx"}
             /\ task'[t].ret.kind = "Disconnected"
             /\ task'[t].cmds = <<>>
             /\ PORTALS' = PORTALS
             /\ hwCh' = hwCh
             /\ \A b \in Ptrs :
                   \/ buf'[b] = buf[b]
                   \/ /\ task'[t].op \in {"try_tx", "tx"}
                      /\ b = task'[t].sdu.ptr
                      /\ buf'[b] = FreeBuf]_vars

C9_Witness ==
    \E t \in Tasks :
        /\ task[t].pc = "done"
        /\ task[t].op = "rx"
        /\ task[t].ret.kind = "Disconnected"
        /\ task[t].cmds = <<>>
        /\ ~connected[L2capConn]
        /\ PORTALS[L2capConn] = NoTask
        /\ \A b \in Ptrs : buf[b].owner # "hw_rx"

\* ------------------------------------------------------------------------
\* Properties of the portal, of setup, of the buffers and of init
\* ------------------------------------------------------------------------

\* C11: a wait_once registration (setup, tx) resolves exactly once.  While
\* it waits, the task is the registered waiter and its predicate handles
\* every event the portal can be handed by resolving, never by waiting on;
\* the step that ends the wait empties the slot, and the slot is not the
\* task's when it regains control.  A task that tries to register while
\* another waiter is registered is flagged with a panic: it neither takes
\* the slot nor waits beside the first.
C11_WaitOnce ==
    [][\A t \in Tasks :
          /\ (task[t].op \in {"setup", "tx"} /\ task[t].pc = "wait") =>
                /\ PORTALS[L2capConn] = t
                /\ \A e \in L2capEvents \cup {DisconnectedEvt} :
                      Predicate(task[t], e, "Ok", "Ok").act # "keep"
                /\ task'[t] # task[t] =>
                      /\ task'[t].pc # "wait"
                      /\ PORTALS'[L2capConn] = NoTask
          /\ task[t].pc = "woken" => PORTALS[L2capConn] # t
          /\ PORTALS[L2capConn] \notin {NoTask, t} =>
                /\ PORTALS'[L2capConn] # t
                /\ task'[t].pc # "wait"
                /\ (/\ connected[L2capConn]
                    /\ \/ \E credits \in CreditCounts, psm \in PSMs :
                             setup(t, credits, psm, "Ok")
                       \/ \E credits \in CreditCounts, psm \in PSMs :
                             listen_with(t, credits, {psm})
                       \/ \E cid \in Cids, b \in Ptrs : tx(t, cid, b, 1, "Resources")
                       \/ TxResume(t, "Resources")
                       \/ \E cid \in Cids, b \in Ptrs : rx(t, cid, b, "Ok")) =>
                      aborted'.why = "Multiple tasks waiting on same portal"]_vars

C11_Witness ==
    /\ aborted.why = "Multiple tasks waiting on same portal"
    /\ aborted.op = "tx"

\* C12 (as stated): the event handed to the portal while setup waits
\* resolves it: channel-setup success with the Channel, setup-refused with
\* Refused, the disconnect with Disconnected; any other event aborts.
C12_AsStated ==
    [][\A t \in Tasks :
          (task[t].op = "setup" /\ task[t].pc = "wait") =>
             /\ \A e \in L2capEvents, st \in {"Ok", "Err"}, fc \in {"Ok", "Err"} :
                   (RoutedToPortal(e) /\ on_evt(e, st, fc)) =>
                      CASE e.id = "CH_SETUP" ->
                              /\ task'[t].pc = "woken"
                              /\ task'[t].res = LRes("Ok", task[t].cid, NoPkt)
                        [] e.id = "CH_SETUP_REFUSED" ->
                              /\ task'[t].pc = "woken"
                              /\ task'[t].res = Failure("Refused")
                        [] OTHER -> aborted' # NotAborted
             /\ LinkDisconnected =>
                   /\ task'[t].pc = "woken"
                   /\ task'[t].res = Failure("Disconnected")]_vars

\* C12 (amended): the event handed to the portal while setup waits ends the
\* wait.  Channel-setup success yields the Channel of the id the setup
\* command returned, unless a credit update is due and the radio refuses it:
\* then the wrapped error; setup-refused yields Refused; the disconnect and
\* channel-released yield Disconnected; any other event handed to the portal
\* aborts with "unexpected event".
C12_SetupOutcomes ==
    [][\A t \in Tasks :
          (task[t].op = "setup" /\ task[t].pc = "wait") =>
             /\ \A e \in L2capEvents, st \in {"Ok", "Err"}, fc \in {"Ok", "Err"} :
                   (RoutedToPortal(e) /\ on_evt(e, st, fc)) =>
                      CASE e.id = "CH_SETUP" ->
                              /\ task'[t].pc = "woken"
                              /\ PORTALS'[L2capConn] = NoTask
                              /\ task'[t].res =
                                    IF task[t].credits = 1 \/ fc = "Ok"
                                    THEN LRes("Ok", task[t].cid, NoPkt)
                                    ELSE Failure("Raw")
                        [] e.id = "CH_SETUP_REFUSED" ->
                              /\ task'[t].pc = "woken"
                              /\ PORTALS'[L2capConn] = NoTask
                              /\ task'[t].res = Failure("Refused")
                        [] e.id = "CH_RELEASED" ->
                              /\ task'[t].pc = "woken"
                              /\ PORTALS'[L2capConn] = NoTask
                              /\ task'[t].res = Failure("Disconnected")
                        [] OTHER ->
                              aborted' = [why |-> "unexpected event", op |-> "setup",
                                          evt |-> e.id]
             /\ LinkDisconnected =>
                   /\ task'[t].pc = "woken"
                   /\ PORTALS'[L2capConn] = NoTask
                   /\ task'[t].res = Failure("Disconnected")]_vars

C12_Witness ==
    \E t \in Tasks :
        /\ task[t].op = "setup"
        /\ task[t].pc = "woken"
        /\ task[t].res.kind = "Raw"
        /\ Len(task[t].cmds) = 2
        /\ task[t].cmds[2].c = "ch_flow_control"
        /\ task[t].cmds[2].status = "Err"

\* C13: when the radio rejects the connect command, connect returns the
\* failure that wraps the rejection in the same step: it does not suspend,
\* the connect portal holds no waiter before or after, and no portal result
\* exists.
C13_RejectedConnectReturns ==
    [][\A cfg \in Configs :
          connect(1, cfg, FALSE) =>
             /\ cpc' = "done"
             /\ connRet' = Err("Raw")
             /\ connRes' = NoRes
             /\ CONNECT_PORTAL = "None"
             /\ CONNECT_PORTAL' = "None"
             /\ connectCmds' = connectCmds + 1]_vars

C13_Witness ==
    /\ cpc = "done"
    /\ connRet = Err("Raw")
    /\ connRes = NoRes
    /\ connectCmds = 1
    /\ CONNECT_PORTAL = "None"

\* C14: a Channel comes only out of a completed handshake.  The wait of
\* setup resolves with a Channel only in the step that delivers a
\* channel-setup success event, and every command setup issued was accepted;
\* the wait of listen_with resolves with a Channel only in the step that
\* delivers a setup request for an accepted PSM, the Channel is the
\* requested one and its accept response was accepted by the radio.  The
\* application's Channel values grow only by the Channel such a wait
\* resolved with, when the call returns it (an abort ends the program and
\* with it every Channel).
C14_ChannelOnlyFromHandshake ==
    [][/\ \A t \in Tasks :
            (/\ task'[t].op \in {"setup", "listen"}
             /\ task'[t].res.kind = "Ok"
             /\ task[t].res.kind # "Ok") =>
               /\ task[t].pc = "wait"
               /\ PORTALS[L2capConn] = t
               /\ connected[L2capConn]
               /\ IF task[t].op = "setup"
                  THEN /\ \E e \in L2capEvents, fc \in {"Ok", "Err"} :
                             e.id = "CH_SETUP" /\ on_evt(e, "Ok", fc)
                       /\ task'[t].res.cid = task[t].cid
                       /\ \A i \in 1 .. Len(task'[t].cmds) :
                             task'[t].cmds[i].status = "Ok"
                  ELSE \E e \in L2capEvents, fc \in {"Ok", "Err"} :
                          /\ e.id = "CH_SETUP_REQUEST"
                          /\ e.psm \in task[t].accept
                          /\ on_evt(e, "Ok", fc)
                          /\ task'[t].res.cid = e.cid
                          /\ task'[t].cmds[Len(task[t].cmds) + 1] =
                                Cmd("ch_setup_SUCCESS", e.cid, NoPkt, e.psm, "Ok")
                          /\ \A i \in Len(task[t].cmds) + 1 .. Len(task'[t].cmds) :
                                task'[t].cmds[i].status = "Ok"
       /\ (channels' # channels /\ aborted' = NotAborted) =>
            \E t \in Tasks :
               /\ task[t].pc = "woken"
               /\ task[t].op \in {"setup", "listen"}
               /\ task[t].res.kind = "Ok"
               /\ task'[t].pc = "done"
               /\ task'[t].ret = task[t].res
               /\ channels' = channels \cup {task[t].res.cid}
       /\ \A t \in Tasks :
            (/\ task'[t].pc = "done"
             /\ task'[t].op \in {"setup", "listen"}
             /\ task'[t].ret.kind = "Ok") =>
               /\ task'[t].ret.cid \in channels'
               /\ task[t].pc \in {"woken", "done"}
               /\ task[t].pc = "woken" => task[t].res = task'[t].ret]_vars

C14_Witness ==
    \E t \in Tasks :
        /\ task[t].pc = "done"
        /\ task[t].op = "listen"
        /\ task[t].ret.kind = "Ok"
        /\ task[t].ret.cid \in channels
        /\ Len(task[t].cmds) >= 2
        /\ task[t].cmds[1].c = "ch_setup_LE_PSM_NOT_SUPPORTED"

\* C15: in every reachable state each packet buffer has exactly one owner:
\* the application, the driver (a future of a task), the radio (queued for
\* transmission or for reception), or the allocator (freed).
C15_ExactlyOneOwner ==
    \A b \in Ptrs : buf[b].owner \in {"app", "task", "hw_tx", "hw_rx", "free"}

C17_AsStated ==
    [][\A final, resumed \in BOOLEAN :
          (SCAN_PORTAL = "Waiting" /\ on_adv_report(final, resumed)) =>
             /\ fCalls' = fCalls + 1
             /\ IF final
                THEN /\ startCmds' = startCmds
                     /\ scanRes' = Ok(NoHandle)
                     /\ spc' = "woken"
                ELSE /\ startCmds' = startCmds + 1
                     /\ spc' = "wait"
                     /\ SCAN_PORTAL' = "Waiting"]_vars

\* C17, amended: each advertisement report delivered to a waiting scan
\* invokes the callback exactly once, and nothing else invokes it.  On "keep
\* scanning" one command to resume the scan is issued; the scan stays
\* waiting if the radio accepts that command and resolves with
\* ScanError::Raw if it rejects it.  On a final result the scan resolves
\* with that result and no command is issued.  Once the scan has resolved
\* the callback is not invoked again.
C17_CallbackPerReport ==
    [][/\ \A final, resumed \in BOOLEAN :
            (SCAN_PORTAL = "Waiting" /\ on_adv_report(final, resumed)) =>
               /\ spc = "wait"
               /\ fCalls' = fCalls + 1
               /\ IF final
                  THEN /\ startCmds' = startCmds
                       /\ scanRes' = Ok(NoHandle)
                       /\ spc' = "woken"
                       /\ SCAN_PORTAL' = "None"
                  ELSE /\ startCmds' = startCmds + 1
                       /\ IF resumed
                          THEN /\ spc' = "wait"
                               /\ SCAN_PORTAL' = "Waiting"
                               /\ scanRes' = scanRes
                          ELSE /\ spc' = "woken"
                               /\ SCAN_PORTAL' = "None"
                               /\ scanRes' = Err("Raw")
       /\ fCalls' > fCalls =>
            /\ SCAN_PORTAL = "Waiting"
            /\ advReports' = advReports + 1
            /\ \E final, resumed \in BOOLEAN : on_adv_report(final, resumed)
       /\ spc \in {"woken", "done"} =>
            /\ fCalls' = fCalls \/ spc' = "idle"
            /\ \A final, resumed \in BOOLEAN : ~on_adv_report(final, resumed)]_vars

C17_Witness ==
    /\ spc = "woken"
    /\ scanRes = Err("Raw")
    /\ fCalls = 2
    /\ advReports = 2
    /\ startCmds = 3

\* C18 as stated: a transmit-completed (transmit buffer released) or an
\* SDU-buffer-released event frees the buffer it names and touches neither
\* the portal nor any future, whether or not a waiter is registered.
C18_AsStated ==
    [][\A e \in L2capEvents :
          (e.id \in {"CH_TX", "CH_SDU_BUF_RELEASED"} /\ on_evt(e, "Ok", "Ok")) =>
             /\ buf' = [buf EXCEPT ![e.ptr] = FreeBuf]
             /\ task' = task
             /\ PORTALS' = PORTALS
             /\ aborted' = aborted]_vars

\* C18, amended: an SDU-buffer-released event is handled in on_evt alone: it
\* frees the buffer it names and touches neither the portal nor any future.
\* A transmit-completed event is handed to the portal of the connection
\* first: it resolves a waiting tx, is passed over by a waiting rx, and makes
\* the predicate of a waiting setup or listen_with panic; unless it
\* panicked, on_evt then frees the buffer the event names and no other.
C18_BufferReleaseEvents ==
    [][\A e \in L2capEvents :
          (e.id \in {"CH_TX", "CH_SDU_BUF_RELEASED"} /\ on_evt(e, "Ok", "Ok")) =>
             LET w == PORTALS[L2capConn]
             IN  IF e.id = "CH_SDU_BUF_RELEASED" \/ w = NoTask
                 THEN /\ buf' = [buf EXCEPT ![e.ptr] = FreeBuf]
                      /\ task' = task
                      /\ PORTALS' = PORTALS
                      /\ aborted' = NotAborted
                 ELSE CASE task[w].op = "tx" ->
                             /\ buf' = [buf EXCEPT ![e.ptr] = FreeBuf]
                             /\ task' = [task EXCEPT ![w].pc = "woken",
                                                     ![w].res = LRes("()", e.cid, NoPkt)]
                             /\ PORTALS' = [PORTALS EXCEPT ![L2capConn] = NoTask]
                             /\ aborted' = NotAborted
                        [] task[w].op = "rx" ->
                             /\ buf' = [buf EXCEPT ![e.ptr] = FreeBuf]
                             /\ task' = task
                             /\ PORTALS' = PORTALS
                             /\ aborted' = NotAborted
                        [] OTHER ->
                             /\ task[w].op \in {"setup", "listen"}
                             /\ aborted' = [why |-> "unexpected event",
                                            op |-> task[w].op, evt |-> "CH_TX"]]_vars

C18_Witness ==
    \E t \in Tasks, b \in Ptrs :
        /\ task[t].op = "tx"
        /\ task[t].pc = "woken"
        /\ task[t].sdu.ptr = b
        /\ buf[b].owner = "task"
        /\ hwCh[task[t].res.cid] = "open"
        /\ \A p \in Ptrs \ {b} : buf[p].owner = "free"

\* C19: whatever the tasks of one connection run, at most one of them waits
\* on the portal of the connection and none tries to register on it while
\* another waiter is registered.
C19_SerializedWaiters ==
    /\ Cardinality({t \in Tasks : task[t].pc = "wait"}) <= 1
    /\ aborted.why # "Multiple tasks waiting on same portal"

\* C20: an rx suspended on channel c is resolved only by events of channel
\* c: a receive-complete or channel-released event of another channel of
\* the connection leaves the future of that rx as it is.
C20_RxOnlyOwnChannel ==
    [][\A t \in Tasks, e \in L2capEvents :
          (/\ task[t].op = "rx"
           /\ task[t].pc = "wait"
           /\ e.id \in {"CH_RX", "CH_RELEASED"}
           /\ e.cid # task[t].cid
           /\ on_evt(e, "Ok", "Ok")) =>
             task'[t] = task[t]]_vars

\* ------------------------------------------------------------------------
\* Properties of the receive buffers, of connect, of tx and of the credits
\* ------------------------------------------------------------------------

\* C21: every receive buffer rx handed to the radio is eventually reclaimed:
\* returned to the application by rx, or freed through the allocator.
C21_RxBufferReclaimed ==
    \A b \in Ptrs :
        [](buf[b].owner = "hw_rx" => <>(buf[b].owner \in {"app", "free"}))

\* C22: sd_ble_gap_connect_cancel is issued only for an attempt whose
\* sd_ble_gap_connect the radio accepted, that is, only once connect has
\* passed its first suspension; a connect whose command is rejected returns
\* without issuing it.
C22_CancelOnlyAfterAcceptedConnect ==
    [][/\ cancelCmds' > cancelCmds => cpc # "idle"
       /\ \A cfg \in Configs :
             connect(1, cfg, FALSE) => cancelCmds' = cancelCmds]_vars

\* C23: the transmit commands of one tx call all carry the buffer and the
\* length the caller passed, on the channel of the call.  Every command but
\* the last was answered "queue full"; while tx is suspended the last was
\* too, and tx holds the packet that attempt returned.  A tx that returned,
\* returned Ok exactly when its last command was accepted and the wrapped
\* error exactly when its last command failed otherwise, and Disconnected
\* (the link was found down, no command issued) when every command before
\* was answered "queue full": no command follows an accepted or a failed
\* one, and at most one was accepted.
C23_TxAcceptedAtMostOnce ==
    \A t \in Tasks :
        task[t].op = "tx" =>
            LET c == task[t].cmds
                n == Len(c)
            IN  /\ \A i \in 1 .. n :
                      /\ c[i].c = "ch_tx"
                      /\ c[i].cid = task[t].cid
                      /\ c[i].pkt = c[1].pkt
                /\ \A i \in 1 .. n - 1 : c[i].status = "Resources"
                /\ Cardinality({i \in 1 .. n : c[i].status = "Ok"}) <= 1
                /\ task[t].pc \in {"wait", "woken"} =>
                      /\ n >= 1
                      /\ c[n].status = "Resources"
                      /\ task[t].sdu = c[n].pkt
                      /\ buf[task[t].sdu.ptr].owner = "task"
                /\ task[t].pc = "done" =>
                      /\ n >= 1 => task[t].sdu = c[1].pkt
                      /\ task[t].ret.kind = "Disconnected" <=>
                            (\A i \in 1 .. n : c[i].status = "Resources")
                      /\ task[t].ret.kind = "Ok" <=> (n >= 1 /\ c[n].status = "Ok")
                      /\ task[t].ret.kind = "Raw" <=> (n >= 1 /\ c[n].status = "Err")
                      /\ task[t].ret.kind \in {"Ok", "Raw", "Disconnected"}

C23_Witness ==
    \E t \in Tasks :
        /\ task[t].op = "tx"
        /\ task[t].pc = "done"
        /\ task[t].ret.kind = "Ok"
        /\ Len(task[t].cmds) = 3
        /\ task[t].cmds[1].status = "Resources"
        /\ task[t].cmds[2].status = "Resources"
        /\ task[t].cmds[3].status = "Ok"
        /\ buf[task[t].sdu.ptr].owner = "hw_tx"

\* C24 as stated: when the handshake of setup (the setup-success event) or of
\* listen_with (its accepted accept response) completes, exactly one
\* flow-control command carrying the configured credits is issued if they
\* differ from one, and none if they equal one; a rejected credit update
\* resolves the call with the wrapped error, anything else with the Channel.
C24_AsStated ==
    [][\A e \in L2capEvents, st \in {"Ok", "Err"}, fc \in {"Ok", "Err"} :
          LET w == PORTALS[L2capConn]
              r == task[w]
              cid == IF r.op = "setup" THEN r.cid ELSE e.cid
              new == {i \in Len(r.cmds) + 1 .. Len(task'[w].cmds) :
                         task'[w].cmds[i].c = "ch_flow_control"}
          IN  (/\ w # NoTask
               /\ \/ r.op = "setup" /\ e.id = "CH_SETUP"
                  \/ /\ r.op = "listen"
                     /\ e.id = "CH_SETUP_REQUEST"
                     /\ e.psm \in r.accept
                     /\ st = "Ok"
               /\ on_evt(e, st, fc)) =>
                 IF r.credits # 1
                 THEN /\ Cardinality(new) = 1
                      /\ \A i \in new :
                            /\ i = Len(task'[w].cmds)
                            /\ task'[w].cmds[i] =
                                  Cmd("ch_flow_control", cid, NoPkt, r.credits, fc)
                      /\ task'[w].pc = "woken"
                      /\ task'[w].res = IF fc = "Ok" THEN LRes("Ok", cid, NoPkt)
                                        ELSE Failure("Raw")
                 ELSE /\ new = {}
                      /\ task'[w].pc = "woken"
                      /\ task'[w].res = LRes("Ok", cid, NoPkt)]_vars

\* C24, amended: the same in a build without the credit workaround.  A
\* build with the credit workaround issues no flow-control command at this
\* point whatever the configured credits, and the call resolves with the
\* Channel.
C24_CreditUpdate ==
    [][\A e \in L2capEvents, st \in {"Ok", "Err"}, fc \in {"Ok", "Err"} :
          LET w == PORTALS[L2capConn]
              r == task[w]
              cid == IF r.op = "setup" THEN r.cid ELSE e.cid
              new == {i \in Len(r.cmds) + 1 .. Len(task'[w].cmds) :
                         task'[w].cmds[i].c = "ch_flow_control"}
          IN  (/\ w # NoTask
               /\ \/ r.op = "setup" /\ e.id = "CH_SETUP"
                  \/ /\ r.op = "listen"
                     /\ e.id = "CH_SETUP_REQUEST"
                     /\ e.psm \in r.accept
                     /\ st = "Ok"
               /\ on_evt(e, st, fc)) =>
                 IF r.credits # 1 /\ ~creditWorkaround
                 THEN /\ Cardinality(new) = 1
                      /\ \A i \in new :
                            /\ i = Len(task'[w].cmds)
                            /\ task'[w].cmds[i] =
                                  Cmd("ch_flow_control", cid, NoPkt, r.credits, fc)
                      /\ task'[w].pc = "woken"
                      /\ task'[w].res = IF fc = "Ok" THEN LRes("Ok", cid, NoPkt)
                                        ELSE Failure("Raw")
                 ELSE /\ new = {}
                      /\ task'[w].pc = "woken"
                      /\ task'[w].res = LRes("Ok", cid, NoPkt)]_vars

C24_Witness ==
    \E t \in Tasks :
        /\ creditWorkaround
        /\ task[t].op = "setup"
        /\ task[t].pc = "woken"
        /\ task[t].credits = 2
        /\ task[t].res.kind = "Ok"
        /\ Len(task[t].cmds) = 1

\* C25: when try_tx, tx or rx returns in the step in which the radio
\* rejected its transmit or receive command with an error other than "queue
\* full", it returns the wrapped error and no packet; the buffer it had
\* offered, which the application or the future owned until then, is freed
\* in that step and no other buffer changes hands; the task is not a waiter
\* of the portal and the portal is as it was.
C25_RejectedCommandFreesBuffer ==
    [][\A t \in Tasks :
          LET r == task'[t]
              n == Len(r.cmds)
          IN  (/\ task[t].pc \in {"idle", "woken"}
               /\ r.pc = "done"
               /\ r.op \in {"try_tx", "tx", "rx"}
               /\ n = Len(task[t].cmds) + 1
               /\ r.cmds[n].c \in {"ch_tx", "ch_rx"}
               /\ r.cmds[n].status = "Err") =>
                  LET b == r.cmds[n].pkt.ptr
                  IN  /\ r.ret = LRes("Raw", r.cid, NoPkt)
                      /\ b \in Ptrs
                      /\ buf[b].owner \in {"app", "task", "free"}
                      /\ buf'[b] = FreeBuf
                      /\ \A p \in Ptrs \ {b} : buf'[p] = buf[p]
                      /\ \A p \in Ptrs : buf'[p].owner # "leaked" \/ buf[p].owner = "leaked"
                      /\ PORTALS[L2capConn] # t
                      /\ PORTALS' = PORTALS]_vars

C25_Witness ==
    \E t \in Tasks :
        /\ task[t].op = "tx"
        /\ task[t].pc = "done"
        /\ task[t].ret.kind = "Raw"
        /\ Len(task[t].cmds) = 2
        /\ task[t].cmds[1].status = "Resources"
        /\ task[t].cmds[2].status = "Err"
        /\ buf[task[t].sdu.ptr] = FreeBuf
        /\ PORTALS[L2capConn] = NoTask

====
